---- MODULE Spec2Model ----
(***************************************************************************)
(* The staged recommendation pipeline of FinAdvisor: the LangGraph         *)
(* workflow of src/agent/agent_code4.py, its stage functions               *)
(* (src/agent/functions.py, src/agent/selected_investments.py) and the     *)
(* collaborators they call (src/agent/tools.py, the sqlite store).         *)
(*                                                                         *)
(* Python dictionaries are functions whose DOMAIN is the set of keys that  *)
(* are present.  Values inside a user profile are tagged records (Num,     *)
(* Str, NoneV, ListV) so that a null, a number and a text can sit under    *)
(* the same key.  Money is counted in units of 1/10000 rupee.              *)
(***************************************************************************)
EXTENDS Integers, Sequences, FiniteSets, TLC

VARIABLES
    ctx,        \* the channel values of the StateGraph: the shared context
    pc,         \* the node the engine runs next, or "END" / "RAISED"
    executed,   \* the nodes run so far, in order
    statuses,   \* the status in the context after each of them
    upd,        \* the update returned by the node that ran last
    calls,      \* the collaborator calls made so far, with their replies
    db,         \* rows of the recommendations table, oldest first
    parked,     \* a second run in flight, waiting while the first one runs
    now         \* the wall clock

vars == <<ctx, pc, executed, statuses, upd, calls, db, parked, now>>

-----------------------------------------------------------------------------
(* Bounds *)

MaxUserId == 2
MaxStocks == 2

-----------------------------------------------------------------------------
(* Python values and dictionary helpers *)

\* no second run
NoRun ==
    [ctx |-> <<>>, pc |-> "NONE", executed |-> <<>>, statuses |-> <<>>,
     upd |-> <<>>, calls |-> <<>>]

\* the clock reading at the start: first day, time of day 0
Epoch == [date |-> 1, time |-> 0]

Num(n) == [t |-> "num", n |-> n, s |-> ""]
Str(s) == [t |-> "str", n |-> 0, s |-> s]
NoneV == [t |-> "none", n |-> 0, s |-> ""]
ListV(s) == [t |-> "list", n |-> 0, s |-> s]
AbsentV == [t |-> "absent", n |-> 0, s |-> ""]

EmptyDict == <<>>

Get(d, k, default) == IF k \in DOMAIN d THEN d[k] ELSE default

Rupees(n) == n * 10000

RECURSIVE JoinFrom(_, _)
JoinFrom(seq, i) ==
    IF i > Len(seq) THEN ""
    ELSE IF i = Len(seq) THEN seq[i]
    ELSE seq[i] \o ", " \o JoinFrom(seq, i + 1)

\* ', '.join(seq)
Join(seq) == JoinFrom(seq, 1)

\* [field for field in fields if field not in d or d[field] is None]
MissingFields(fields, d) ==
    SelectSeq(fields, LAMBDA f : f \notin DOMAIN d \/ d[f] = NoneV)

\* str.lower() on the texts the model uses
LowerTable ==
    ("Low" :> "low" @@ "Medium" :> "medium" @@ "High" :> "high" @@
     "LOW" :> "low" @@ "MEDIUM" :> "medium" @@ "HIGH" :> "high" @@
     "Extreme" :> "extreme" @@ " Low " :> " low " @@ "Moderate" :> "moderate")

\* a lower() that leaves the text as it is
Lower_CaseKept(s) == s

Lower(s) == IF s \in DOMAIN LowerTable THEN LowerTable[s] ELSE s

\* str.strip() on the texts the model uses
StripTable == (" Low " :> "Low" @@ " low " :> "low")

Strip(s) == IF s \in DOMAIN StripTable THEN StripTable[s] ELSE s

\* texts that float() and int() parse
NumericText == ("5" :> 5 @@ "10" :> 10)

\* str(v)
PyStr(v) ==
    CASE v.t = "str" -> v.s
      [] v.t = "num" -> ToString(v.n)
      [] v.t = "none" -> "None"
      [] OTHER -> "[" \o v.s \o "]"

\* float(v) / int(v): "ok", "ValueError" or "TypeError"
ConvKind(v) ==
    CASE v.t = "num" -> "ok"
      [] v.t = "str" -> IF v.s \in DOMAIN NumericText THEN "ok" ELSE "ValueError"
      [] OTHER -> "TypeError"

ConvVal(v) == IF v.t = "num" THEN v.n ELSE NumericText[v.s]

FloatErr(v) ==
    IF ConvKind(v) = "ValueError"
    THEN "could not convert string to float: '" \o v.s \o "'"
    ELSE "float() argument must be a string or a real number"

\* v.lower() raises AttributeError unless v is a str
HasLower(v) == v.t = "str"

\* bool(v) of a profile value
Truthy(v) ==
    CASE v.t = "num" -> v.n # 0
      [] v.t = "str" -> v.s # ""
      [] v.t = "list" -> v.s # ""
      [] OTHER -> FALSE

\* round(x, 2) of the products d * 0.05 and d * 0.95 that lie exactly between
\* two hundredths: the binary value of the float product decides the
\* direction (values as CPython computes them for the amounts of FundAmounts)
FloatTies ==
    (450 :> 500 @@ 8550 :> 8500 @@
     7500250 :> 7500300 @@ 142504750 :> 142504700 @@
     12499750 :> 12499800 @@ 237495250 :> 237495200 @@
     17499750 :> 17499800 @@ 332495250 :> 332495300 @@
     29999950 :> 30000000 @@ 569999050 :> 569999000 @@
     37499750 :> 37499800 @@ 712495250 :> 712495200 @@
     49999950 :> 49999900 @@ 949999050 :> 949999000)

\* round(x, 2): x in units of 1/10000, result a multiple of 100; a tie goes
\* the way of FloatTies, and to even where the float is exact
Round2(x) ==
    LET q == x \div 100
        r == x % 100
    IN  IF x \in DOMAIN FloatTies THEN FloatTies[x]
        ELSE IF r < 50 THEN q * 100
        ELSE IF r > 50 THEN (q + 1) * 100
        ELSE IF q % 2 = 0 THEN q * 100 ELSE (q + 1) * 100

\* x * p / 100 for a percentage p, x a multiple of 100
Pct(x, p) == (x \div 100) * p

-----------------------------------------------------------------------------
(* What a stage hands back to the engine *)

Ret(u) == [raised |-> FALSE, out |-> u]
Raise == [raised |-> TRUE, out |-> EmptyDict]

\* {**state, "error": msg, "status": "error"}
WithError(state, msg) == ("error" :> msg @@ "status" :> "error") @@ state

-----------------------------------------------------------------------------
(* src/agent/tools.py *)

\* UserProfileTool._run: an error dict or the profile row
UserProfileTool_run(user_id, outcome, profile) ==
    CASE outcome = "notfound" ->
            ("error" :> ("No profile found for user_id " \o ToString(user_id)))
      [] outcome = "exception" ->
            ("error" :> "An error occurred while fetching the user profile: db")
      [] OTHER -> profile

\* MarketDataTool._run: an error dict or the content of market_data.json
MarketDataTool_run(outcome, data) ==
    IF outcome = "exception"
    THEN ("error" :> "An error occurred while fetching market data: io")
    ELSE data

-----------------------------------------------------------------------------
(* src/agent/functions.py: fetch_user_profile, check_profile_completeness *)

fetch_user_profile(state, data) ==
    IF "user_id" \notin DOMAIN state \/ state["user_id"] = 0
    THEN Ret(WithError(state, "No user_id provided in state"))
    ELSE IF "error" \in DOMAIN data
    THEN Ret(WithError(state, "Failed to fetch user profile: " \o data["error"]))
    ELSE LET missing_fields ==
                 MissingFields(<<"monthly_income", "monthly_expenses",
                                 "risk_appetite">>, data)
         IN  IF missing_fields # <<>>
             THEN Ret(WithError(state, "Profile is missing required fields: "
                                        \o Join(missing_fields)))
             ELSE Ret(("user_profile" :> data @@ "status" :> "success") @@ state)

calculate_savings(monthly_income, monthly_expenses) ==
    LET disposable_income == monthly_income - monthly_expenses
        emergency_fund == disposable_income \div 20
        monthly_investment == disposable_income - emergency_fund
    IN  ("emergency_fund" :> Num(emergency_fund) @@
         "monthly_investment" :> Num(monthly_investment) @@
         "disposable_income" :> Num(disposable_income))

\* risk_mapping without its entry for high
risk_mapping_NoHigh == ("low" :> "Low" @@ "medium" :> "Medium")

risk_mapping == ("low" :> "Low" @@ "medium" :> "Medium" @@ "high" :> "High")

RequiredBase ==
    <<"monthly_income", "monthly_expenses", "risk_appetite",
      "investment_horizon_years">>

\* check_profile_completeness that maps an unrecognized risk appetite to Medium
check_profile_completeness_DefaultMedium(state) ==
    LET profile == Get(state, "user_profile", EmptyDict)
        missing == MissingFields(RequiredBase, profile)
    IN
    IF missing # <<>>
    THEN Ret(("status" :> "profile_incomplete" @@
              "missing_fields" :> missing @@
              "error" :> ("Missing required fields: " \o Join(missing)))
             @@ state)
    ELSE LET inc == profile["monthly_income"]
             exp == profile["monthly_expenses"]
             bad == IF ConvKind(inc) # "ok" THEN inc ELSE exp
         IN
         IF ConvKind(bad) = "ValueError"
         THEN Ret(("status" :> "profile_invalid" @@
                   "error" :> ("Invalid profile data: " \o FloatErr(bad)))
                  @@ state)
         ELSE IF ConvKind(bad) = "TypeError"
         THEN Ret(("status" :> "error" @@
                   "error" :> ("Error processing profile: " \o FloatErr(bad)))
                  @@ state)
         ELSE
         LET savings_info == calculate_savings(ConvVal(inc), ConvVal(exp))
             p1 == savings_info @@ profile
             p2 == IF "investment_goals" \notin DOMAIN p1
                      \/ ~Truthy(p1["investment_goals"])
                   THEN ("investment_goals" :> ListV("default_goals")) @@ p1
                   ELSE p1
             risk_appetite == Strip(PyStr(p2["risk_appetite"]))
             risk_appetite_lower == Lower(risk_appetite)
         IN
         Ret(("status" :> "profile_valid" @@
              "user_profile" :>
                  [p2 EXCEPT !["risk_appetite"] =
                       Str(IF risk_appetite_lower \in DOMAIN risk_mapping
                           THEN risk_mapping[risk_appetite_lower]
                           ELSE "Medium")])
             @@ state)

check_profile_completeness(state) ==
    LET profile == Get(state, "user_profile", EmptyDict)
        missing == MissingFields(RequiredBase, profile)
    IN
    IF missing # <<>>
    THEN Ret(("status" :> "profile_incomplete" @@
              "missing_fields" :> missing @@
              "error" :> ("Missing required fields: " \o Join(missing)))
             @@ state)
    ELSE LET inc == profile["monthly_income"]
             exp == profile["monthly_expenses"]
             bad == IF ConvKind(inc) # "ok" THEN inc ELSE exp
         IN
         IF ConvKind(bad) = "ValueError"
         THEN Ret(("status" :> "profile_invalid" @@
                   "error" :> ("Invalid profile data: " \o FloatErr(bad)))
                  @@ state)
         ELSE IF ConvKind(bad) = "TypeError"
         THEN Ret(("status" :> "error" @@
                   "error" :> ("Error processing profile: " \o FloatErr(bad)))
                  @@ state)
         ELSE
         LET savings_info == calculate_savings(ConvVal(inc), ConvVal(exp))
             p1 == savings_info @@ profile
             p2 == IF "investment_goals" \notin DOMAIN p1
                      \/ ~Truthy(p1["investment_goals"])
                   THEN ("investment_goals" :> ListV("default_goals")) @@ p1
                   ELSE p1
             risk_appetite == Strip(PyStr(p2["risk_appetite"]))
             risk_appetite_lower == Lower(risk_appetite)
         IN
         \* profile.update(...) changed the dict held by the state, so the
         \* profile returned on the ValueError path carries the new fields
         IF risk_appetite_lower \notin DOMAIN risk_mapping
         THEN Ret(("status" :> "profile_invalid" @@
                   "error" :> ("Invalid profile data: Invalid risk profile: "
                               \o risk_appetite) @@
                   "user_profile" :> p2) @@ state)
         ELSE Ret(("status" :> "profile_valid" @@
                   "user_profile" :>
                       [p2 EXCEPT !["risk_appetite"] =
                            Str(risk_mapping[risk_appetite_lower])])
                  @@ state)

-----------------------------------------------------------------------------
(* src/agent/functions.py: the remaining stages *)

FallbackActions ==
    <<"Update your financial information", "Set clear investment goals",
      "Complete your risk assessment">>

NoneInt == -1

\* generate_fallback_recommendation that passes the incoming status on
generate_fallback_recommendation_StatusKept(state) ==
    LET status == Get(state, "status", "profile_incomplete")
    IN  Ret(("recommendation" :>
                ("status" :> "fallback" @@
                 "message" :> "Please complete your profile to get personalized recommendations." @@
                 "suggested_actions" :> FallbackActions @@
                 "user_id" :> Get(state, "user_id", NoneInt)) @@
             "status" :> status) @@ state)

generate_fallback_recommendation(state) ==
    LET status == Get(state, "status", "profile_incomplete")
        default == "Please complete your profile to get personalized recommendations."
        missing == Get(state, "missing_fields", <<>>)
        message ==
            IF status = "profile_incomplete"
            THEN IF missing # <<>>
                 THEN "Please provide the following information: "
                      \o Join(missing) \o "."
                 ELSE default
            ELSE IF status = "profile_invalid"
            THEN Get(state, "error", "Invalid profile information provided.")
            ELSE default
    IN  Ret(("recommendation" :>
                ("status" :> "fallback" @@
                 "message" :> message @@
                 "suggested_actions" :> FallbackActions @@
                 "user_id" :> Get(state, "user_id", NoneInt)) @@
             "status" :> "completed_with_fallback") @@ state)

fetch_market_data(state, data) ==
    IF "error" \in DOMAIN data
    THEN Ret(WithError(state, "Market data error: " \o data["error"]))
    ELSE Ret(("market_data" :> data @@ "status" :> "market_data_fetched")
             @@ state)

preprocess_market_data(state) ==
    LET market_data == Get(state, "market_data", EmptyDict)
        user_profile == Get(state, "user_profile", EmptyDict)
        risk == Get(user_profile, "risk_appetite", Str("Medium"))
    IN
    IF market_data = EmptyDict
    THEN Ret(WithError(state,
            "Error processing market data: No market data available for processing"))
    ELSE IF ~HasLower(risk)
    THEN Ret(WithError(state,
            "Error processing market data: object has no attribute 'lower'"))
    ELSE
    LET risk_profile == Lower(risk.s)
        stocks == Get(market_data, "stocks", <<>>)
        processed_data ==
            ("stocks" :>
                (IF risk_profile = "low"
                 THEN SelectSeq(stocks, LAMBDA s : Lower(s.risk_level) = "low")
                 ELSE stocks) @@
             "mutual_funds" :> Get(market_data, "mutual_funds", <<>>) @@
             "fixed_deposits" :> Get(market_data, "fixed_deposits", <<>>))
    IN  Ret(("processed_market_data" :> processed_data @@
             "status" :> "market_data_processed") @@ state)

\* calculate_emergency_fund with the comparison written as "< 0"
calculate_emergency_fund_StrictCompare(state) ==
    LET profile == Get(state, "user_profile", EmptyDict)
        inc == Get(profile, "monthly_income", Num(0))
        exp == Get(profile, "monthly_expenses", Num(0))
        bad == IF ConvKind(inc) # "ok" THEN inc ELSE exp
    IN
    IF ConvKind(bad) = "ValueError"
    THEN Ret(WithError(state, FloatErr(bad)))
    ELSE IF ConvKind(bad) = "TypeError"
    THEN Ret(WithError(state, "Error calculating emergency fund: " \o FloatErr(bad)))
    ELSE
    LET disposable_income == ConvVal(inc) - ConvVal(exp)
        emergency_fund == Round2(disposable_income \div 20)
        monthly_investment == Round2((disposable_income \div 20) * 19)
        updated_profile ==
            ("emergency_fund" :> Num(emergency_fund) @@
             "monthly_investment" :> Num(monthly_investment)) @@ profile
    IN
    IF disposable_income < 0
    THEN Ret(WithError(state, "Monthly expenses exceed or equal monthly income"))
    ELSE Ret(("user_profile" :> updated_profile @@
              "emergency_fund" :> emergency_fund @@
              "monthly_investment" :> monthly_investment @@
              "status" :> "emergency_fund_calculated") @@ state)

\* calculate_emergency_fund that invests the whole disposable income
calculate_emergency_fund_InvestsAll(state) ==
    LET profile == Get(state, "user_profile", EmptyDict)
        inc == Get(profile, "monthly_income", Num(0))
        exp == Get(profile, "monthly_expenses", Num(0))
        bad == IF ConvKind(inc) # "ok" THEN inc ELSE exp
    IN
    IF ConvKind(bad) = "ValueError"
    THEN Ret(WithError(state, FloatErr(bad)))
    ELSE IF ConvKind(bad) = "TypeError"
    THEN Ret(WithError(state, "Error calculating emergency fund: " \o FloatErr(bad)))
    ELSE
    LET disposable_income == ConvVal(inc) - ConvVal(exp)
        emergency_fund == Round2(disposable_income \div 20)
        monthly_investment == Round2(disposable_income)
        updated_profile ==
            ("emergency_fund" :> Num(emergency_fund) @@
             "monthly_investment" :> Num(monthly_investment)) @@ profile
    IN
    IF disposable_income <= 0
    THEN Ret(WithError(state, "Monthly expenses exceed or equal monthly income"))
    ELSE Ret(("user_profile" :> updated_profile @@
              "emergency_fund" :> emergency_fund @@
              "monthly_investment" :> monthly_investment @@
              "status" :> "emergency_fund_calculated") @@ state)

\* calculate_emergency_fund that sets a tenth aside
calculate_emergency_fund_TenPercent(state) ==
    LET profile == Get(state, "user_profile", EmptyDict)
        inc == Get(profile, "monthly_income", Num(0))
        exp == Get(profile, "monthly_expenses", Num(0))
        bad == IF ConvKind(inc) # "ok" THEN inc ELSE exp
    IN
    IF ConvKind(bad) = "ValueError"
    THEN Ret(WithError(state, FloatErr(bad)))
    ELSE IF ConvKind(bad) = "TypeError"
    THEN Ret(WithError(state, "Error calculating emergency fund: " \o FloatErr(bad)))
    ELSE
    LET disposable_income == ConvVal(inc) - ConvVal(exp)
        emergency_fund == Round2(disposable_income \div 10)
        monthly_investment == Round2((disposable_income \div 20) * 19)
        updated_profile ==
            ("emergency_fund" :> Num(emergency_fund) @@
             "monthly_investment" :> Num(monthly_investment)) @@ profile
    IN
    IF disposable_income <= 0
    THEN Ret(WithError(state, "Monthly expenses exceed or equal monthly income"))
    ELSE Ret(("user_profile" :> updated_profile @@
              "emergency_fund" :> emergency_fund @@
              "monthly_investment" :> monthly_investment @@
              "status" :> "emergency_fund_calculated") @@ state)

calculate_emergency_fund(state) ==
    LET profile == Get(state, "user_profile", EmptyDict)
        inc == Get(profile, "monthly_income", Num(0))
        exp == Get(profile, "monthly_expenses", Num(0))
        bad == IF ConvKind(inc) # "ok" THEN inc ELSE exp
    IN
    IF ConvKind(bad) = "ValueError"
    THEN Ret(WithError(state, FloatErr(bad)))
    ELSE IF ConvKind(bad) = "TypeError"
    THEN Ret(WithError(state, "Error calculating emergency fund: " \o FloatErr(bad)))
    ELSE
    LET disposable_income == ConvVal(inc) - ConvVal(exp)
        emergency_fund == Round2(disposable_income \div 20)
        monthly_investment == Round2((disposable_income \div 20) * 19)
        updated_profile ==
            ("emergency_fund" :> Num(emergency_fund) @@
             "monthly_investment" :> Num(monthly_investment)) @@ profile
    IN
    IF disposable_income <= 0
    THEN Ret(WithError(state, "Monthly expenses exceed or equal monthly income"))
    ELSE Ret(("user_profile" :> updated_profile @@
              "emergency_fund" :> emergency_fund @@
              "monthly_investment" :> monthly_investment @@
              "status" :> "emergency_fund_calculated") @@ state)

\* the keys of RISK_PROFILES (src/agent/models.py)
RISK_PROFILES == {"Low", "Medium", "High"}

\* no try/except: an exception leaves the stage
analyze_goals_and_risk(state) ==
    LET profile == Get(state, "user_profile", EmptyDict)
        risk == Get(profile, "risk_appetite", Str("moderate"))
        horizon == Get(profile, "investment_horizon_years", Num(5))
    IN
    IF ~HasLower(risk) \/ ConvKind(horizon) # "ok"
    THEN Raise
    ELSE Ret("risk_profile" :>
                 (IF Lower(risk.s) \in RISK_PROFILES
                  THEN Lower(risk.s) ELSE "moderate") @@
             "time_horizon" :> ConvVal(horizon) @@
             "status" :> "risk_analyzed")

\* DEFAULT_ALLOCATIONS (src/agent/models.py), ratios in percent
DEFAULT_ALLOCATIONS ==
    ("low" :> ("equity" :> 30 @@ "fixed_income" :> 50 @@ "cash" :> 20) @@
     "medium" :> ("equity" :> 60 @@ "fixed_income" :> 30 @@ "cash" :> 10) @@
     "high" :> ("equity" :> 80 @@ "fixed_income" :> 15 @@ "cash" :> 5))

define_risk_based_allocation(state) ==
    LET given == Lower(Get(state, "risk_profile", "medium"))
        risk_profile == IF given \in DOMAIN DEFAULT_ALLOCATIONS
                        THEN given ELSE "medium"
        allocation == ("risk_profile" :> risk_profile)
                      @@ DEFAULT_ALLOCATIONS[risk_profile]
    IN  Ret(("asset_allocation" :> allocation @@
             "status" :> "allocation_defined") @@ state)

EmptyInstruments ==
    ("stocks" :> <<>> @@ "mutual_funds" :> <<>> @@ "fixed_deposits" :> <<>>)

\* the reply is parsed only when the call was made
LlmCalled(state) ==
    /\ Get(state, "market_data", EmptyDict) # EmptyDict
    /\ "asset_allocation" \in DOMAIN state

\* the stage with a reply that does not parse turned into an error
select_investments_ParseFailureIsError(state, llm) ==
    LET failed(msg) ==
            Ret(("error" :> ("Error selecting investments: " \o msg) @@
                 "error_details" :> "traceback" @@
                 "suggested_instruments" :> EmptyInstruments @@
                 "status" :> "error") @@ state)
        suggested ==
            [k \in {"stocks", "mutual_funds", "fixed_deposits"} |->
                Get(Get(llm.body, "suggested_instruments", EmptyDict), k, <<>>)]
    IN
    IF Get(state, "market_data", EmptyDict) = EmptyDict
    THEN failed("No market data available in state")
    ELSE IF "asset_allocation" \notin DOMAIN state
    THEN failed("cannot access local variable 'chosen_allocation'")
    ELSE IF llm.kind # "json"
    THEN failed("llm")
    ELSE Ret(("suggested_instruments" :> suggested @@
              "selected_products" :> (("total_allocated" :> 0) @@ suggested) @@
              "status" :> "products_selected") @@ state)

\* src/agent/selected_investments.py; llm is the reply of chain.invoke
select_investments(state, llm) ==
    LET failed(msg) ==
            Ret(("error" :> ("Error selecting investments: " \o msg) @@
                 "error_details" :> "traceback" @@
                 "suggested_instruments" :> EmptyInstruments @@
                 "status" :> "error") @@ state)
        parsed ==
            IF llm.kind = "json" /\ "suggested_instruments" \in DOMAIN llm.body
            THEN llm.body["suggested_instruments"]
            ELSE EmptyDict
        suggested ==
            [k \in {"stocks", "mutual_funds", "fixed_deposits"} |->
                Get(parsed, k, <<>>)]
    IN
    IF Get(state, "market_data", EmptyDict) = EmptyDict
    THEN failed("No market data available in state")
    ELSE IF "asset_allocation" \notin DOMAIN state
    THEN failed("cannot access local variable 'chosen_allocation'")
    ELSE IF llm.kind = "raise"
    THEN failed("llm")
    ELSE Ret(("suggested_instruments" :> suggested @@
              "selected_products" :> (("total_allocated" :> 0) @@ suggested) @@
              "status" :> "products_selected") @@ state)

calculate_returns(state) ==
    LET fromProfile ==
            Get(Get(state, "user_profile", EmptyDict), "monthly_investment", Num(0))
        given == IF "monthly_investment" \in DOMAIN state
                 THEN Num(state["monthly_investment"]) ELSE fromProfile
        allocation == Get(state, "asset_allocation", EmptyDict)
        failed(msg) == Ret(WithError(state, "Error calculating returns: " \o msg))
    IN
    IF ConvKind(given) # "ok"
    THEN failed(FloatErr(given))
    ELSE IF ConvVal(given) <= 0
    THEN failed("No monthly investment amount available for return calculation")
    ELSE
    LET monthly_investment == ConvVal(given)
        amount(k) == Pct(monthly_investment, Get(allocation, k, 0))
        equity_return == amount("equity") \div 10
        fixed_income_return == (amount("fixed_income") \div 100) * 6
        gold_return == (amount("gold") \div 100) * 4
        cash_return == (amount("cash") \div 100) * 3
    IN  Ret(("projected_returns" :>
                ("equity" :> equity_return @@
                 "fixed_income" :> fixed_income_return @@
                 "gold" :> gold_return @@
                 "cash" :> cash_return @@
                 "total" :> (equity_return + fixed_income_return
                             + gold_return + cash_return)) @@
             "status" :> "returns_calculated") @@ state)

\* format_currency(amount): the amount rounded to two decimals, zero when falsy
format_currency(amount) == IF amount = 0 THEN 0 ELSE Round2(amount)

\* format_currency of a profile value raises when float() does
FormatOk(v) == ~Truthy(v) \/ ConvKind(v) = "ok"

FormatVal(v) == IF Truthy(v) THEN format_currency(ConvVal(v)) ELSE 0

InstrumentKeys == {"stocks", "mutual_funds", "fixed_deposits"}

generate_final_recommendation(state) ==
    LET user_profile == Get(state, "user_profile", EmptyDict)
        failed(msg) ==
            Ret(WithError(state, "Error generating final recommendation: " \o msg))
        emergency_fund == Get(state, "emergency_fund", 0)
        given == Get(user_profile, "monthly_investment", Num(0))
        inc == Get(user_profile, "monthly_income", Num(0))
        exp == Get(user_profile, "monthly_expenses", Num(0))
        recompute == ConvKind(given) = "ok" /\ ConvVal(given) <= 0
        monthly_investment ==
            IF recompute
            THEN ((ConvVal(inc) - ConvVal(exp)) \div 20) * 19
            ELSE ConvVal(given)
        asset_allocation ==
            Get(state, "asset_allocation",
                ("equity" :> 60 @@ "fixed_income" :> 30 @@ "cash" :> 10))
        found ==
            IF "suggested_instruments" \in DOMAIN state
            THEN state["suggested_instruments"]
            ELSE IF /\ "selected_products" \in DOMAIN state
                    /\ \E key \in InstrumentKeys :
                           key \in DOMAIN state["selected_products"]
            THEN [k \in InstrumentKeys |->
                     Get(state["selected_products"], k, <<>>)]
            ELSE EmptyDict
        suggested_instruments ==
            [k \in DOMAIN found \cup InstrumentKeys |-> Get(found, k, <<>>)]
        amountOf(item) ==
            IF monthly_investment > 0
            THEN Pct(monthly_investment, item.allocation_percentage) ELSE 0
        processed(k) ==
            [i \in 1..Len(suggested_instruments[k]) |->
                [name |-> suggested_instruments[k][i].name,
                 allocation_percentage |->
                     suggested_instruments[k][i].allocation_percentage,
                 allocation_amount |->
                     format_currency(amountOf(suggested_instruments[k][i]))]]
        default_returns ==
            ("equity" :> Pct(monthly_investment, Get(asset_allocation, "equity", 0)) \div 10 @@
             "fixed_income" :>
                 (Pct(monthly_investment, Get(asset_allocation, "fixed_income", 0)) \div 100) * 6 @@
             "gold" :> 0 @@
             "cash" :>
                 (Pct(monthly_investment, Get(asset_allocation, "cash", 0)) \div 100) * 3 @@
             "total" :> 0)
        projected_returns == Get(state, "projected_returns", default_returns)
        total == IF projected_returns["total"] = 0
                 THEN projected_returns["equity"] + projected_returns["fixed_income"]
                      + projected_returns["gold"] + projected_returns["cash"]
                 ELSE projected_returns["total"]
        recommendation ==
            ("user_id" :> Get(state, "user_id", NoneInt) @@
             "personal_info" :>
                 [monthly_income |-> FormatVal(inc),
                  monthly_expenses |-> FormatVal(exp)] @@
             "investment_summary" :>
                 [emergency_fund |-> format_currency(emergency_fund),
                  monthly_investment |-> format_currency(monthly_investment),
                  risk_profile |-> Get(state, "risk_profile", "medium"),
                  time_horizon_years |-> Get(state, "time_horizon", 5)] @@
             "asset_allocation" :>
                 [k \in {"equity", "fixed_income", "cash"} |->
                     Get(asset_allocation, k, 0)] @@
             "selected_investments" :> [k \in InstrumentKeys |-> processed(k)] @@
             "projected_returns" :> format_currency(total) @@
             "status" :> "success" @@
             "message" :> "Investment recommendation generated successfully")
    IN
    IF ConvKind(given) # "ok"
    THEN failed(FloatErr(given))
    ELSE IF recompute /\ (ConvKind(inc) # "ok" \/ ConvKind(exp) # "ok")
    THEN failed(FloatErr(IF ConvKind(inc) # "ok" THEN inc ELSE exp))
    ELSE IF \A k \in DOMAIN suggested_instruments : suggested_instruments[k] = <<>>
    \* the else branch reads stocks, mutual_funds and fixed_deposits, which
    \* only the if branch assigns: UnboundLocalError, caught below
    THEN failed("cannot access local variable 'stocks'")
    ELSE IF ~FormatOk(inc) \/ ~FormatOk(exp)
    THEN failed(FloatErr(IF ~FormatOk(inc) THEN inc ELSE exp))
    ELSE Ret(("recommendation" :> recommendation @@
              "status" :> "recommendation_generated") @@ state)

\* the INSERT is reached with a recommendation to save
WriteAttempted(state) == Get(state, "recommendation", EmptyDict) # EmptyDict

\* the INSERT is committed
WriteCommitted(state, outcome) ==
    WriteAttempted(state) /\ "user_id" \in DOMAIN state /\ outcome = "ok"

\* save_recommendation that reports success whatever the INSERT did
save_recommendation_IgnoreFailure(state, outcome) ==
    IF ~WriteAttempted(state)
    THEN Ret("error" :> "No recommendation to save")
    ELSE Ret("status" :> "recommendation_saved")

\* save_recommendation that reports a failure by its status alone
save_recommendation_StatusOnlyFailure(state, outcome) ==
    IF ~WriteCommitted(state, outcome)
    THEN Ret("status" :> "error")
    ELSE Ret("status" :> "recommendation_saved")

\* save_recommendation that reports a failure with no message
save_recommendation_SilentFailure(state, outcome) ==
    IF ~WriteCommitted(state, outcome)
    THEN Ret(EmptyDict)
    ELSE Ret("status" :> "recommendation_saved")

save_recommendation(state, outcome) ==
    IF ~WriteAttempted(state)
    THEN Ret("error" :> "No recommendation to save")
    ELSE IF ~WriteCommitted(state, outcome)
    THEN Ret("error" :> "Failed to save recommendation: db")
    ELSE Ret("status" :> "recommendation_saved")

\* a created_at text: the date, the separator and the time of day; the
\* store compares such texts character by character
IsoFormat(clock) == [date |-> clock.date, sep |-> "T", time |-> clock.time]

\* a row that stores the whole context
SavedRow_WholeContext(state) ==
    [user_id |-> state["user_id"],
     recommendation_json |-> state,
     created_at |-> IsoFormat(now)]

\* the row save_recommendation inserts
SavedRow(state) ==
    [user_id |-> state["user_id"],
     recommendation_json |-> state["recommendation"],
     created_at |-> IsoFormat(now)]

-----------------------------------------------------------------------------
(* src/agent/agent_code4.py: the error node, the edges, the engine *)

\* handle_error that leaves the status as it found it
handle_error_StatusKept(state) ==
    LET error_msg == Get(state, "error", "An unknown error occurred")
    IN  Ret(("recommendation" :>
                ("status" :> "error" @@
                 "message" :> error_msg @@
                 "suggested_actions" :>
                     <<"Please try again later",
                       "Contact support if the issue persists">> @@
                 "user_id" :> Get(state, "user_id", NoneInt))) @@ state)

\* handle_error that sets the status and builds no payload
handle_error_NoPayload(state) ==
    Ret(("status" :> "error_handled") @@ state)

handle_error(state) ==
    LET error_msg == Get(state, "error", "An unknown error occurred")
    IN  Ret(("recommendation" :>
                ("status" :> "error" @@
                 "message" :> error_msg @@
                 "suggested_actions" :>
                     <<"Please try again later",
                       "Contact support if the issue persists">> @@
                 "user_id" :> Get(state, "user_id", NoneInt)) @@
             "status" :> "error_handled") @@ state)

Nodes ==
    {"fetch_user_profile", "check_profile_completeness",
     "generate_fallback_recommendation", "fetch_market_data",
     "preprocess_market_data", "calculate_emergency_fund",
     "analyze_goals_and_risk", "define_risk_based_allocation",
     "select_investment_products", "calculate_returns",
     "generate_final_recommendation", "save_recommendation", "handle_error"}

\* the keys of GraphState (src/agent/models.py): the channels of the graph
GraphState ==
    {"user_id", "user_profile", "market_data", "processed_market_data",
     "emergency_fund", "risk_profile", "time_horizon", "asset_allocation",
     "selected_stocks", "selected_mutual_funds", "selected_fds",
     "recommendation", "status", "error"}

\* an engine that takes a node's update as the whole new context
Merge_ReplaceWholesale(channels, out) ==
    [k \in DOMAIN out \cap {"user_id", "user_profile", "market_data",
                            "processed_market_data", "emergency_fund",
                            "risk_profile", "time_horizon", "asset_allocation",
                            "selected_stocks", "selected_mutual_funds",
                            "selected_fds", "recommendation", "status",
                            "error"} |-> out[k]]

\* StateGraph(GraphState): a node's update is written channel by channel;
\* keys that are not channels are not written
Merge(channels, out) ==
    [k \in DOMAIN channels \cup (DOMAIN out \cap GraphState) |->
        IF k \in DOMAIN out THEN out[k] ELSE channels[k]]

\* the path map of check_profile_completeness
\* the path map with profile_invalid sent down the main path
ProfilePathMap_InvalidContinues ==
    ("profile_valid" :> "fetch_market_data" @@
     "profile_incomplete" :> "generate_fallback_recommendation" @@
     "profile_invalid" :> "fetch_market_data" @@
     "error" :> "handle_error")

ProfilePathMap ==
    ("profile_valid" :> "fetch_market_data" @@
     "profile_incomplete" :> "generate_fallback_recommendation" @@
     "profile_invalid" :> "generate_fallback_recommendation" @@
     "error" :> "handle_error")

\* edges of the form: next if x.get("status") != "error" else "handle_error"
UnlessErrorEdges ==
    ("fetch_user_profile" :> "check_profile_completeness" @@
     "fetch_market_data" :> "preprocess_market_data")

\* edges of the form: next if x.get("status") == expected else "handle_error"
ExpectEdges ==
    ("preprocess_market_data" :>
        <<"market_data_processed", "calculate_emergency_fund">> @@
     "calculate_emergency_fund" :>
        <<"emergency_fund_calculated", "analyze_goals_and_risk">> @@
     "analyze_goals_and_risk" :>
        <<"risk_analyzed", "define_risk_based_allocation">> @@
     "define_risk_based_allocation" :>
        <<"allocation_defined", "select_investment_products">> @@
     "select_investment_products" :>
        <<"products_selected", "calculate_returns">> @@
     "calculate_returns" :>
        <<"returns_calculated", "generate_final_recommendation">> @@
     "generate_final_recommendation" :>
        <<"recommendation_generated", "save_recommendation">> @@
     "save_recommendation" :> <<"recommendation_saved", "END">> @@
     "generate_fallback_recommendation" :> <<"completed_with_fallback", "END">>)

\* Route with the edge of fetch_market_data comparing against "success"
Route_MarketSuccessOnly(node, x) ==
    LET status == Get(x, "status", "None")
    IN
    IF node = "fetch_market_data"
    THEN IF status = "success" THEN "preprocess_market_data" ELSE "handle_error"
    ELSE IF node \in DOMAIN UnlessErrorEdges
    THEN IF status # "error" THEN UnlessErrorEdges[node] ELSE "handle_error"
    ELSE IF node = "check_profile_completeness"
    THEN IF Get(x, "status", "error") \in DOMAIN ProfilePathMap
         THEN ProfilePathMap[Get(x, "status", "error")] ELSE "RAISED"
    ELSE IF node \in DOMAIN ExpectEdges
    THEN IF status = ExpectEdges[node][1]
         THEN ExpectEdges[node][2] ELSE "handle_error"
    ELSE "END"

\* Route that sends every context holding an error to handle_error
Route_HaltOnError(node, x) ==
    LET status == Get(x, "status", "None")
    IN
    IF node # "handle_error" /\ "error" \in DOMAIN x
    THEN "handle_error"
    ELSE IF node \in DOMAIN UnlessErrorEdges
    THEN IF status # "error" THEN UnlessErrorEdges[node] ELSE "handle_error"
    ELSE IF node = "check_profile_completeness"
    THEN IF Get(x, "status", "error") \in DOMAIN ProfilePathMap
         THEN ProfilePathMap[Get(x, "status", "error")] ELSE "RAISED"
    ELSE IF node \in DOMAIN ExpectEdges
    THEN IF status = ExpectEdges[node][1]
         THEN ExpectEdges[node][2] ELSE "handle_error"
    ELSE "END"

\* the conditional edge of the node, evaluated on the merged state; a key that
\* the path map of check_profile_completeness lacks is a KeyError
Route(node, x) ==
    LET status == Get(x, "status", "None")
    IN
    IF node \in DOMAIN UnlessErrorEdges
    THEN IF status # "error" THEN UnlessErrorEdges[node] ELSE "handle_error"
    ELSE IF node = "check_profile_completeness"
    THEN IF Get(x, "status", "error") \in DOMAIN ProfilePathMap
         THEN ProfilePathMap[Get(x, "status", "error")] ELSE "RAISED"
    ELSE IF node \in DOMAIN ExpectEdges
    THEN IF status = ExpectEdges[node][1]
         THEN ExpectEdges[node][2] ELSE "handle_error"
    ELSE "END"

-----------------------------------------------------------------------------
(* The collaborators' possible replies *)

\* a profile row: the keys whose value is not AbsentV
MkProfile(income, expenses, risk, horizon) ==
    LET all == ("monthly_income" :> income @@ "monthly_expenses" :> expenses @@
                "risk_appetite" :> risk @@ "investment_horizon_years" :> horizon)
    IN  [k \in {f \in DOMAIN all : all[f] # AbsentV} |-> all[k]]

\* rows as the store's writers produce them, with any column empty or absent
Profiles ==
    {MkProfile(i, e, r, h) :
        i \in {AbsentV, NoneV, Num(Rupees(100000)), Num(Rupees(60000))},
        e \in {AbsentV, NoneV, Num(Rupees(60000)), Num(Rupees(100000))},
        r \in {AbsentV, NoneV, Str("medium"), Str("Low"), Str("HIGH"), Str("extreme")},
        h \in {AbsentV, NoneV, Num(5)}}

NoProfile == [outcome |-> "none", profile |-> EmptyDict]

UserReplies ==
    {[outcome |-> "ok", profile |-> p] : p \in Profiles}
    \cup {[outcome |-> o, profile |-> EmptyDict] : o \in {"notfound", "exception"}}

Stock(symbol, risk) == [symbol |-> symbol, risk_level |-> risk]

StockLists ==
    UNION {[1..n -> {Stock("SYM001", "low"), Stock("SYM002", "")}] : n \in 0..MaxStocks}

MarketFile(stocks) ==
    ("stocks" :> stocks @@
     "mutual_funds" :> <<[name |-> "Debt Fund 1", category |-> "Debt"]>> @@
     "fixed_deposits" :> <<[bank |-> "SafeBank", rate_pct |-> 7]>>)

NoMarket == [outcome |-> "none", data |-> EmptyDict]

MarketReplies ==
    {[outcome |-> "ok", data |-> MarketFile(st)] : st \in StockLists}
    \cup {[outcome |-> "ok", data |-> EmptyDict],
          [outcome |-> "exception", data |-> EmptyDict]}

Pick(name, pct) == [name |-> name, allocation_percentage |-> pct]

NoLlm == [kind |-> "none", body |-> EmptyDict]

\* chain.invoke raises, answers without JSON, answers with braces that do
\* not parse as JSON, or answers with a JSON object
LlmReplies ==
    {[kind |-> "raise", body |-> EmptyDict],
     [kind |-> "text", body |-> EmptyDict],
     [kind |-> "malformed", body |-> EmptyDict],
     [kind |-> "json", body |-> EmptyDict],
     [kind |-> "json", body |-> ("suggested_instruments" :> EmptyInstruments)],
     [kind |-> "json", body |->
         ("suggested_instruments" :> ("stocks" :> <<Pick("Company001 Ltd", 60)>>))]}

WriteOutcomes == {"ok", "fail"}

UserChoices(node) == IF node = "fetch_user_profile" THEN UserReplies ELSE {NoProfile}
MarketChoices(node) == IF node = "fetch_market_data" THEN MarketReplies ELSE {NoMarket}
LlmChoices(node) == IF node = "select_investment_products" THEN LlmReplies ELSE {NoLlm}
WriteChoices(node) == IF node = "save_recommendation" THEN WriteOutcomes ELSE {"none"}

-----------------------------------------------------------------------------
(* The engine *)

\* workflow.add_node: the function behind each node name
RunNode(node, state, user, market, llm, write) ==
    CASE node = "fetch_user_profile" ->
            fetch_user_profile(state,
                UserProfileTool_run(Get(state, "user_id", 0), user.outcome, user.profile))
      [] node = "check_profile_completeness" -> check_profile_completeness(state)
      [] node = "generate_fallback_recommendation" ->
            generate_fallback_recommendation(state)
      [] node = "fetch_market_data" ->
            fetch_market_data(state, MarketDataTool_run(market.outcome, market.data))
      [] node = "preprocess_market_data" -> preprocess_market_data(state)
      [] node = "calculate_emergency_fund" -> calculate_emergency_fund(state)
      [] node = "analyze_goals_and_risk" -> analyze_goals_and_risk(state)
      [] node = "define_risk_based_allocation" -> define_risk_based_allocation(state)
      [] node = "select_investment_products" -> select_investments(state, llm)
      [] node = "calculate_returns" -> calculate_returns(state)
      [] node = "generate_final_recommendation" -> generate_final_recommendation(state)
      [] node = "save_recommendation" -> save_recommendation(state, write)
      [] OTHER -> handle_error(state)

\* the collaborator call the node makes, with the reply it gets
CallsMade(node, state, user, market, llm, write) ==
    IF node = "fetch_user_profile" /\ Get(state, "user_id", 0) # 0
    THEN ("user_fetch" :> user)
    ELSE IF node = "fetch_market_data"
    THEN ("market_fetch" :> market)
    ELSE IF node = "select_investment_products" /\ LlmCalled(state)
    THEN ("llm" :> llm)
    ELSE IF node = "save_recommendation" /\ WriteAttempted(state)
    THEN ("db_write" :> [committed |-> WriteCommitted(state, write)])
    ELSE EmptyDict

\* the engine's bookkeeping once a node has returned r (or raised): write
\* the update to the channels and follow the node's conditional edge
Finish(node, r, made, committed) ==
    LET merged == IF r.raised THEN ctx ELSE Merge(ctx, r.out)
    IN  /\ upd' = r.out
        /\ ctx' = merged
        /\ pc' = IF r.raised THEN "RAISED" ELSE Route(node, merged)
        /\ executed' = Append(executed, node)
        /\ statuses' = Append(statuses, Get(merged, "status", "None"))
        /\ calls' = made @@ calls
        /\ db' = IF committed THEN Append(db, SavedRow(ctx)) ELSE db
        /\ UNCHANGED <<parked, now>>

\* one step of app.invoke: run the current node, whichever it is
Step ==
    /\ pc \in Nodes
    /\ \E user \in UserChoices(pc), market \in MarketChoices(pc),
          llm \in LlmChoices(pc), write \in WriteChoices(pc) :
          Finish(pc, RunNode(pc, ctx, user, market, llm, write),
                 CallsMade(pc, ctx, user, market, llm, write),
                 pc = "save_recommendation" /\ WriteCommitted(ctx, write))

\* app.invoke({"user_id": user_id}) with the entry point fetch_user_profile
Init ==
    /\ \E user_id \in 0..MaxUserId : ctx = ("user_id" :> user_id)
    /\ pc = "fetch_user_profile"
    /\ executed = <<>>
    /\ statuses = <<>>
    /\ upd = EmptyDict
    /\ calls = EmptyDict
    /\ db = <<>>
    /\ parked = NoRun
    /\ now = Epoch

Next == Step

Spec == Init /\ [][Next]_vars

\* the stage calls are synchronous: a started run is driven to its end
LiveSpec == Spec /\ WF_vars(Step)

-----------------------------------------------------------------------------
(* The stages taken one at a time: any node, entered with the status its    *)
(* incoming edge requires, on any context, well-formed or not.              *)

Opt(k, present, v) == IF present THEN (k :> v) ELSE EmptyDict

\* profiles as a caller of the stage functions may pass them: a well-formed
\* row and the rows that differ from it in one field
WideProfiles ==
    LET income == Num(Rupees(100000))
        expenses == Num(Rupees(60000))
        risk == Str("Low")
        horizon == Num(5)
    IN  {MkProfile(i, expenses, risk, horizon) :
            i \in {income, NoneV, Str("abc"), ListV("x")}}
        \cup {MkProfile(income, Num(Rupees(100000)), risk, horizon)}
        \cup {MkProfile(income, expenses, r, horizon) :
                r \in {AbsentV, NoneV, Str("extreme"), Str("HIGH"),
                       Str("medium"), Str(" Low "), Num(5)}}
        \cup {MkProfile(income, expenses, risk, h) :
                h \in {NoneV, Str("five")}}

\* the status with which the edges of the graph enter a node
EntryStatus(node) ==
    CASE node = "fetch_user_profile" -> {"None"}
      [] node = "check_profile_completeness" -> {"success"}
      [] node = "generate_fallback_recommendation" ->
            {"profile_incomplete", "profile_invalid"}
      [] node = "fetch_market_data" -> {"profile_valid"}
      [] node = "handle_error" -> {"error", "recommendation_generated"}
      [] node = "preprocess_market_data" -> {"market_data_fetched"}
      [] OTHER ->
            {ExpectEdges[m][1] : m \in {n \in DOMAIN ExpectEdges :
                                           ExpectEdges[n][2] = node}}

SampleRecommendation ==
    ("user_id" :> 1 @@ "status" :> "success" @@
     "message" :> "Investment recommendation generated successfully")

StageContext(status, hasUser, profile, hasProfile, market, hasMarket, derived, hasRec, hasError) ==
    Opt("status", status # "None", status)
    @@ Opt("user_id", hasUser, 1)
    @@ Opt("user_profile", hasProfile, profile)
    @@ Opt("market_data", hasMarket, market)
    @@ Opt("emergency_fund", derived, Rupees(2000))
    @@ Opt("risk_profile", derived, "moderate")
    @@ Opt("time_horizon", derived, 5)
    @@ Opt("asset_allocation", derived,
           ("risk_profile" :> "medium") @@ DEFAULT_ALLOCATIONS["medium"])
    @@ Opt("recommendation", hasRec, SampleRecommendation)
    @@ Opt("error", hasError, "earlier error")

StageInit ==
    /\ pc \in Nodes
    /\ \E status \in EntryStatus(pc), hasUser \in BOOLEAN,
          profile \in WideProfiles, hasProfile \in BOOLEAN,
          market \in {EmptyDict, MarketFile(<<Stock("SYM001", "low")>>)},
          hasMarket \in BOOLEAN, derived \in BOOLEAN, hasRec \in BOOLEAN,
          hasError \in BOOLEAN :
          ctx = StageContext(status, hasUser, profile, hasProfile, market,
                             hasMarket, derived, hasRec, hasError)
    /\ executed = <<>>
    /\ statuses = <<>>
    /\ upd = EmptyDict
    /\ calls = EmptyDict
    /\ db = <<>>
    /\ parked = NoRun
    /\ now = Epoch

\* the made-calls record of a node that calls no collaborator
NoCalls(node) == CallsMade(node, ctx, NoProfile, NoMarket, NoLlm, "none")

FetchUserProfile ==
    /\ pc = "fetch_user_profile"
    /\ \E user \in UserReplies :
          Finish(pc,
                 fetch_user_profile(ctx,
                     UserProfileTool_run(Get(ctx, "user_id", 0),
                                         user.outcome, user.profile)),
                 CallsMade(pc, ctx, user, NoMarket, NoLlm, "none"), FALSE)

CheckProfileCompleteness ==
    /\ pc = "check_profile_completeness"
    /\ Finish(pc, check_profile_completeness(ctx), NoCalls(pc), FALSE)

GenerateFallbackRecommendation ==
    /\ pc = "generate_fallback_recommendation"
    /\ Finish(pc, generate_fallback_recommendation(ctx), NoCalls(pc), FALSE)

FetchMarketData ==
    /\ pc = "fetch_market_data"
    /\ \E market \in MarketReplies :
          Finish(pc,
                 fetch_market_data(ctx,
                     MarketDataTool_run(market.outcome, market.data)),
                 CallsMade(pc, ctx, NoProfile, market, NoLlm, "none"), FALSE)

PreprocessMarketData ==
    /\ pc = "preprocess_market_data"
    /\ Finish(pc, preprocess_market_data(ctx), NoCalls(pc), FALSE)

CalculateEmergencyFund ==
    /\ pc = "calculate_emergency_fund"
    /\ Finish(pc, calculate_emergency_fund(ctx), NoCalls(pc), FALSE)

AnalyzeGoalsAndRisk ==
    /\ pc = "analyze_goals_and_risk"
    /\ Finish(pc, analyze_goals_and_risk(ctx), NoCalls(pc), FALSE)

DefineRiskBasedAllocation ==
    /\ pc = "define_risk_based_allocation"
    /\ Finish(pc, define_risk_based_allocation(ctx), NoCalls(pc), FALSE)

SelectInvestmentProducts ==
    /\ pc = "select_investment_products"
    /\ \E llm \in LlmReplies :
          Finish(pc, select_investments(ctx, llm),
                 CallsMade(pc, ctx, NoProfile, NoMarket, llm, "none"), FALSE)

CalculateReturns ==
    /\ pc = "calculate_returns"
    /\ Finish(pc, calculate_returns(ctx), NoCalls(pc), FALSE)

GenerateFinalRecommendation ==
    /\ pc = "generate_final_recommendation"
    /\ Finish(pc, generate_final_recommendation(ctx), NoCalls(pc), FALSE)

PersistRecommendation ==
    /\ pc = "save_recommendation"
    /\ \E write \in WriteOutcomes :
          Finish(pc, save_recommendation(ctx, write),
                 CallsMade(pc, ctx, NoProfile, NoMarket, NoLlm, write),
                 WriteCommitted(ctx, write))

HandleError ==
    /\ pc = "handle_error"
    /\ Finish(pc, handle_error(ctx), NoCalls(pc), FALSE)

StageNext ==
    \/ FetchUserProfile
    \/ CheckProfileCompleteness
    \/ GenerateFallbackRecommendation
    \/ FetchMarketData
    \/ PreprocessMarketData
    \/ CalculateEmergencyFund
    \/ AnalyzeGoalsAndRisk
    \/ DefineRiskBasedAllocation
    \/ SelectInvestmentProducts
    \/ CalculateReturns
    \/ GenerateFinalRecommendation
    \/ PersistRecommendation
    \/ HandleError

StageSpec == StageInit /\ [][StageNext]_vars

-----------------------------------------------------------------------------
(* calculate_emergency_fund taken alone, on amounts with paise *)

Paise(n) == n * 100

\* monthly amounts in paise, from one paisa to above a lakh; several pairs
\* have a difference whose 5% or 95% lies exactly between two paise
FundAmounts ==
    {1, 7, 10, 33, 100, 2500050, 5000001, 6000000, 7500050, 10000000,
     10000033, 12345678}

FundInit ==
    /\ pc = "calculate_emergency_fund"
    /\ \E income \in FundAmounts, expenses \in FundAmounts :
          ctx = ("user_id" :> 1 @@
                 "status" :> "market_data_processed" @@
                 "user_profile" :>
                     MkProfile(Num(Paise(income)), Num(Paise(expenses)),
                               Str("Low"), Num(5)))
    /\ executed = <<>>
    /\ statuses = <<>>
    /\ upd = EmptyDict
    /\ calls = EmptyDict
    /\ db = <<>>
    /\ parked = NoRun
    /\ now = Epoch

FundSpec == FundInit /\ [][CalculateEmergencyFund]_vars

-----------------------------------------------------------------------------
(* src/agent/functions.py: select_investment_products, which no node of the  *)
(* graph calls, up to the class amounts. Ratios are in percent; a ratio the  *)
(* function goes on with is the fraction num / den.                          *)

AssetClasses == {"equity", "fixed_income", "cash"}

\* the allocation used when the state has none, and the defaults of its keys
DefaultRatios == ("equity" :> 60 @@ "fixed_income" :> 30 @@ "cash" :> 10)

\* equity_ratio, fixed_income_ratio and cash_ratio after "Ensure ratios sum
\* to 1"
allocation_ratios(state) ==
    LET allocation == Get(state, "asset_allocation", DefaultRatios)
        ratio == [k \in AssetClasses |-> Get(allocation, k, DefaultRatios[k])]
        total_ratio == ratio["equity"] + ratio["fixed_income"] + ratio["cash"]
    IN  IF total_ratio > 0
        THEN [k \in AssetClasses |-> [num |-> ratio[k], den |-> total_ratio]]
        ELSE [k \in AssetClasses |-> [num |-> ratio[k], den |-> 100]]

\* the monthly investment the function works with: from the state, else from
\* the profile, else 95% of income less expenses
products_monthly_investment(state) ==
    LET user_profile == Get(state, "user_profile", EmptyDict)
        inc == ConvVal(Get(user_profile, "monthly_income", Num(0)))
        exp == ConvVal(Get(user_profile, "monthly_expenses", Num(0)))
    IN  IF "monthly_investment" \in DOMAIN state
        THEN state["monthly_investment"]
        ELSE IF "monthly_investment" \in DOMAIN user_profile
        THEN ConvVal(user_profile["monthly_investment"])
        ELSE ((inc - exp) \div 20) * 19

Min(a, b) == IF a < b THEN a ELSE b

\* indexes of a list in the order sorted(list, key=..., reverse=True) gives:
\* descending by key, items with equal keys in their original order
InsertDesc(order, i, keys) ==
    LET c == Cardinality({n \in 1..Len(order) : keys[order[n]] >= keys[i]})
    IN  SubSeq(order, 1, c) \o <<i>> \o SubSeq(order, c + 1, Len(order))

RECURSIVE SortedIndexes(_, _)
SortedIndexes(keys, n) ==
    IF n = 0 THEN <<>>
    ELSE InsertDesc(SortedIndexes(keys, n - 1), n, keys)

sorted_reverse(list, keys) ==
    [j \in 1..Len(list) |-> list[SortedIndexes(keys, Len(list))[j]]]

\* round(num / den, 2) for an amount num / den in units of 1/10000: a multiple
\* of 100
RoundQuotient2(num, den) ==
    LET unit == 100 * den
        q == num \div unit
        r == num % unit
    IN  IF 2 * r < unit THEN q * 100
        ELSE IF 2 * r > unit THEN (q + 1) * 100
        ELSE IF q % 2 = 0 THEN q * 100 ELSE (q + 1) * 100

\* the instruments used when a class has an amount and nothing was selected;
\* rates are in hundredths of a percent
DefaultStock ==
    ("symbol" :> "RELIANCE" @@ "name" :> "Reliance Industries"
     @@ "sector" :> "Conglomerate")

DefaultFund == ("scheme_name" :> "HDFC Top 100 Fund" @@ "category" :> "Equity")

DefaultDeposit ==
    ("bank" :> "SBI" @@ "tenure" :> "1 year" @@ "interest_rate" :> 650)

TopStocks == 5
TopFunds == 3
TopDeposits == 3

RECURSIVE SumAllocation(_)
SumAllocation(products) ==
    IF products = <<>> THEN 0
    ELSE Head(products)["allocation_amount"] + SumAllocation(Tail(products))

\* int(tenure.split()[0]), times 12 when the text names years
TenureMonths(fd) ==
    LET tenure == Get(fd, "tenure", "12")
    IN  CASE tenure = "12" -> 12
          [] tenure = "1 year" -> 12
          [] tenure = "2 years" -> 24
          [] tenure = "6 months" -> 6

\* the whole function: the returned update. Amounts are in units of 1/10000;
\* a class amount is the fraction monthly_investment * ratio, cut to a whole
\* number of units where the code keeps it unrounded
select_investment_products(state) ==
    LET monthly_investment == products_monthly_investment(state)
        ratio == allocation_ratios(state)
        amount == [k \in AssetClasses |->
                     [num |-> monthly_investment * ratio[k].num,
                      den |-> ratio[k].den]]
        market_data == Get(state, "market_data", EmptyDict)
        listed_stocks == Get(market_data, "stocks", <<>>)
        stocks == sorted_reverse(listed_stocks,
                      [i \in 1..Len(listed_stocks) |->
                          Get(listed_stocks[i], "market_cap", 0)])
        debt == SelectSeq(Get(market_data, "mutual_funds", <<>>),
                          LAMBDA mf : Get(mf, "category", "None") = "debt")
        debt_funds == sorted_reverse(debt,
                          [i \in 1..Len(debt) |-> Get(debt[i], "returns_5y", 0)])
        listed_fds == Get(market_data, "fixed_deposits", <<>>)
        fds == sorted_reverse(listed_fds,
                   [i \in 1..Len(listed_fds) |->
                       Get(listed_fds[i], "interest_rate", 0)])
        top(list, n, a) ==
            LET num == Min(n, Len(list))
            IN  IF a.num > 0
                THEN [i \in 1..num |->
                        ("allocation_amount" :>
                             RoundQuotient2(a.num, a.den * num)) @@ list[i]]
                ELSE <<>>
        orDefault(selected, a, default) ==
            IF selected = <<>> /\ a.num > 0
            THEN <<("allocation_amount" :> (a.num \div a.den)) @@ default>>
            ELSE selected
        sel_stocks == orDefault(top(stocks, TopStocks, amount["equity"]),
                                amount["equity"], DefaultStock)
        sel_funds == orDefault(top(debt_funds, TopFunds, amount["fixed_income"]),
                               amount["fixed_income"], DefaultFund)
        sel_fds == orDefault(top(fds, TopDeposits, amount["cash"]),
                             amount["cash"], DefaultDeposit)
        percentage(p) ==
            (p["allocation_amount"] * 100) \div (monthly_investment \div 10000)
        suggested ==
            ("stocks" :>
                 [i \in 1..Len(sel_stocks) |->
                     [name |-> Get(sel_stocks[i], "name",
                                   Get(sel_stocks[i], "symbol", "Unknown")),
                      allocation_percentage |-> percentage(sel_stocks[i])]]
             @@ "mutual_funds" :>
                 [i \in 1..Len(sel_funds) |->
                     [name |-> Get(sel_funds[i], "scheme_name", "Unknown Fund"),
                      allocation_percentage |-> percentage(sel_funds[i])]]
             @@ "fixed_deposits" :>
                 [i \in 1..Len(sel_fds) |->
                     [bank |-> Get(sel_fds[i], "bank", "Unknown Bank"),
                      tenure_months |-> TenureMonths(sel_fds[i]),
                      rate_pct |-> Get(sel_fds[i], "interest_rate", 0),
                      allocation_percentage |-> percentage(sel_fds[i])]])
    IN  IF monthly_investment <= 0
        THEN Ret(WithError(state, "No monthly investment amount available"))
        ELSE Ret(("selected_products" :>
                      ("stocks" :> sel_stocks
                       @@ "mutual_funds" :> sel_funds
                       @@ "fixed_deposits" :> sel_fds
                       @@ "total_allocated" :>
                              Round2(SumAllocation(sel_stocks)
                                     + SumAllocation(sel_funds)
                                     + SumAllocation(sel_fds)))
                  @@ "suggested_instruments" :>
                         ("suggested_instruments" :> suggested)
                  @@ "monthly_investment" :> monthly_investment
                  @@ "status" :> "products_selected")
                 @@ state)

\* ratios in percent that a caller may pass
RatioValues == {0, 15, 30, 60}

\* market data as src/generate_market_data.py writes it: its own key names,
\* capitalised categories, entries in no particular order
GeneratedStock(i, growth) ==
    ("symbol" :> ("SYM00" \o ToString(i))
     @@ "name" :> ("Company00" \o ToString(i) \o " Ltd")
     @@ "sector" :> "Banking" @@ "growth_pct_yoy" :> growth)

GeneratedFund(i, cat, ret) ==
    ("code" :> ("MF_" \o ToString(i)) @@ "name" :> (cat \o " Fund " \o ToString(i))
     @@ "category" :> cat @@ "return_pct_3y_cagr" :> ret)

GeneratedDeposit(bank, months, rate) ==
    ("bank" :> bank @@ "tenure_months" :> months @@ "rate_pct" :> rate)

GeneratedMarket ==
    ("as_of" :> "2025-06-30" @@ "currency" :> "INR"
     @@ "stocks" :> <<GeneratedStock(1, 1200), GeneratedStock(2, 2100)>>
     @@ "mutual_funds" :> <<GeneratedFund(1, "Debt", 700),
                            GeneratedFund(2, "Equity", 1500),
                            GeneratedFund(3, "Debt", 900)>>
     @@ "fixed_deposits" :> <<GeneratedDeposit("SafeBank", 12, 550),
                              GeneratedDeposit("TrustBank", 24, 800),
                              GeneratedDeposit("GrowBank", 6, 600),
                              GeneratedDeposit("NeoBank", 36, 850)>>)

\* market data with the keys the function reads
CapStock(symbol, cap) ==
    ("symbol" :> symbol @@ "sector" :> "Energy" @@ "market_cap" :> cap)

DebtFund(name, ret) ==
    ("scheme_name" :> name @@ "category" :> "debt" @@ "returns_5y" :> ret)

RateDeposit(bank, tenure, rate) ==
    ("bank" :> bank @@ "tenure" :> tenure @@ "interest_rate" :> rate)

KeyedMarket ==
    ("stocks" :> <<CapStock("A", 30), CapStock("B", 90), CapStock("C", 10),
                   CapStock("D", 70), CapStock("E", 50), CapStock("F", 60)>>
     @@ "mutual_funds" :> <<DebtFund("Debt One", 700), DebtFund("Debt Two", 950),
                            DebtFund("Debt Three", 600),
                            DebtFund("Debt Four", 800)>>
     @@ "fixed_deposits" :> <<RateDeposit("SafeBank", "1 year", 550),
                              RateDeposit("TrustBank", "2 years", 800)>>)

\* a class with nothing listed, and one with a single entry
SparseMarket ==
    ("stocks" :> <<CapStock("A", 30)>> @@ "mutual_funds" :> <<>>)

ProductMarkets == {EmptyDict, GeneratedMarket, KeyedMarket, SparseMarket}

ProductsInit ==
    /\ pc = "functions.select_investment_products"
    /\ \E hasAllocation \in BOOLEAN,
          hasKey \in [AssetClasses -> BOOLEAN],
          value \in [AssetClasses -> RatioValues],
          investment \in {0, Rupees(1200)},
          inState \in BOOLEAN,
          market \in ProductMarkets :
          ctx = ("user_id" :> 1 @@ "status" :> "allocation_defined"
                 @@ "market_data" :> market)
                @@ Opt("asset_allocation", hasAllocation,
                       Opt("equity", hasKey["equity"], value["equity"])
                       @@ Opt("fixed_income", hasKey["fixed_income"],
                              value["fixed_income"])
                       @@ Opt("cash", hasKey["cash"], value["cash"]))
                @@ Opt("monthly_investment", inState, investment)
                @@ ("user_profile" :>
                        (Opt("monthly_investment", ~inState, Num(investment))
                         @@ MkProfile(Num(Rupees(100000)), Num(Rupees(60000)),
                                      Str("Medium"), Num(5))))
    /\ executed = <<>>
    /\ statuses = <<>>
    /\ upd = EmptyDict
    /\ calls = EmptyDict
    /\ db = <<>>
    /\ parked = NoRun
    /\ now = Epoch

\* the function runs to the point where it computes the class amounts: upd
\* holds the ratios it uses there, or the update it returns when it stops
\* before
RunToClassAmounts ==
    /\ pc = "functions.select_investment_products"
    /\ IF products_monthly_investment(ctx) <= 0
       THEN /\ upd' = WithError(ctx, "No monthly investment amount available")
            /\ pc' = "RETURNED"
       ELSE /\ upd' = allocation_ratios(ctx)
            /\ pc' = "class_amounts"
    /\ executed' = Append(executed, pc)
    /\ statuses' = Append(statuses, Get(ctx, "status", "None"))
    /\ UNCHANGED <<ctx, calls, db, parked, now>>

\* the function runs on from the class amounts to its return: upd holds the
\* update it returns
SelectProducts ==
    /\ pc = "class_amounts"
    /\ upd' = select_investment_products(ctx).out
    /\ pc' = "RETURNED"
    /\ UNCHANGED <<ctx, executed, statuses, calls, db, parked, now>>

ProductsNext == RunToClassAmounts \/ SelectProducts

ProductsSpec == ProductsInit /\ [][ProductsNext]_vars

-----------------------------------------------------------------------------
(* The conditional edges taken alone: any node, any status *)

StatusValues ==
    {"None", "unexpected", "success", "error", "profile_valid",
     "profile_incomplete", "profile_invalid", "market_data_fetched",
     "market_data_processed", "emergency_fund_calculated", "risk_analyzed",
     "allocation_defined", "products_selected", "returns_calculated",
     "recommendation_generated", "recommendation_saved",
     "completed_with_fallback", "error_handled"}

RouterInit ==
    /\ pc \in Nodes
    /\ \E status \in StatusValues, hasError \in BOOLEAN :
          ctx = Opt("status", status # "None", status)
                @@ Opt("error", hasError, "earlier error")
                @@ ("user_id" :> 1)
    /\ executed = <<>>
    /\ statuses = <<>>
    /\ upd = EmptyDict
    /\ calls = EmptyDict
    /\ db = <<>>
    /\ parked = NoRun
    /\ now = Epoch

\* the node has returned and its update is in the context: follow its edge
EvaluateEdge ==
    /\ pc \in Nodes
    /\ executed = <<>>
    /\ pc' = Route(pc, ctx)
    /\ executed' = <<pc>>
    /\ statuses' = <<Get(ctx, "status", "None")>>
    /\ UNCHANGED <<ctx, upd, calls, db, parked, now>>

RouterSpec == RouterInit /\ [][EvaluateEdge]_vars

-----------------------------------------------------------------------------
(* Two runs in flight, each with its own context, and the recommendations   *)
(* table they share.                                                        *)

MaxDate == 2
MaxTime == 1

\* CURRENT_TIMESTAMP, the column default the endpoint's INSERT relies on
CurrentTimestamp(clock) == [date |-> clock.date, sep |-> " ", time |-> clock.time]

\* character codes of the separators: a space sorts before "T"
SepCode == (" " :> 32 @@ "T" :> 84)

\* text order of two created_at values
TextBefore(a, b) ==
    \/ a.date < b.date
    \/ a.date = b.date /\ SepCode[a.sep] < SepCode[b.sep]
    \/ a.date = b.date /\ a.sep = b.sep /\ a.time < b.time

\* SELECT ... WHERE user_id = ? ORDER BY created_at DESC: the rows that may
\* come first; rows with equal created_at come in an order the query does
\* not fix
LatestRows(user_id) ==
    LET mine == {i \in 1..Len(db) : db[i].user_id = user_id}
    IN  {db[i] : i \in {i \in mine :
                          \A j \in mine :
                              ~TextBefore(db[i].created_at, db[j].created_at)}}

\* the replies the collaborators give in this specification
ConcurrentUserReplies ==
    {[outcome |-> "ok",
      profile |-> MkProfile(Num(Rupees(100000)), Num(Rupees(60000)),
                            Str("medium"), Num(5))],
     [outcome |-> "ok",
      profile |-> MkProfile(Num(Rupees(100000)), Num(Rupees(60000)),
                            Str("medium"), AbsentV)],
     [outcome |-> "notfound", profile |-> EmptyDict]}

ConcurrentMarketReplies ==
    {[outcome |-> "ok", data |-> MarketFile(<<Stock("SYM001", "low")>>)]}

ConcurrentLlmReplies ==
    {[kind |-> "json", body |->
         ("suggested_instruments" :> ("stocks" :> <<Pick("Company001 Ltd", 60)>>))]}

\* a run as app.invoke starts it, and a run entered at save_recommendation
\* with the context generate_final_recommendation is to leave
SeedContext(node, user_id) ==
    IF node = "fetch_user_profile"
    THEN ("user_id" :> user_id)
    ELSE ("user_id" :> user_id @@ "status" :> "recommendation_generated"
          @@ "recommendation" :> (("user_id" :> user_id) @@ SampleRecommendation))

SeedRuns ==
    {[ctx |-> SeedContext(node, user_id), pc |-> node, executed |-> <<>>,
      statuses |-> <<>>, upd |-> EmptyDict, calls |-> EmptyDict] :
        node \in {"fetch_user_profile", "save_recommendation"},
        user_id \in 1..MaxUserId}

ConcurrentInit ==
    /\ \E first \in SeedRuns :
          /\ ctx = first.ctx
          /\ pc = first.pc
          /\ executed = first.executed
          /\ statuses = first.statuses
          /\ upd = first.upd
          /\ calls = first.calls
    /\ parked \in SeedRuns
    /\ db = <<>>
    /\ now = Epoch

\* one stage of the run that has the processor
ConcurrentStep ==
    /\ pc \in Nodes
    /\ \E user \in IF pc = "fetch_user_profile"
                   THEN ConcurrentUserReplies ELSE {NoProfile},
          market \in IF pc = "fetch_market_data"
                     THEN ConcurrentMarketReplies ELSE {NoMarket},
          llm \in IF pc = "select_investment_products"
                  THEN ConcurrentLlmReplies ELSE {NoLlm},
          write \in WriteChoices(pc) :
          Finish(pc, RunNode(pc, ctx, user, market, llm, write),
                 CallsMade(pc, ctx, user, market, llm, write),
                 pc = "save_recommendation" /\ WriteCommitted(ctx, write))

\* a switch that hands over the position only: the two runs work on one
\* context
Switch_SharedContext ==
    /\ pc' = parked.pc
    /\ executed' = parked.executed
    /\ statuses' = parked.statuses
    /\ upd' = parked.upd
    /\ calls' = parked.calls
    /\ parked' = [ctx |-> ctx, pc |-> pc, executed |-> executed,
                  statuses |-> statuses, upd |-> upd, calls |-> calls]
    /\ UNCHANGED <<ctx, db, now>>

\* the scheduler gives the processor to the other run
Switch ==
    /\ ctx' = parked.ctx
    /\ pc' = parked.pc
    /\ executed' = parked.executed
    /\ statuses' = parked.statuses
    /\ upd' = parked.upd
    /\ calls' = parked.calls
    /\ parked' = [ctx |-> ctx, pc |-> pc, executed |-> executed,
                  statuses |-> statuses, upd |-> upd, calls |-> calls]
    /\ UNCHANGED <<db, now>>

\* time passes: the time of day moves on, or the date changes
Tick ==
    /\ \/ /\ now.time < MaxTime
          /\ now' = [now EXCEPT !.time = now.time + 1]
       \/ /\ now.date < MaxDate
          /\ now' = [date |-> now.date + 1, time |-> 0]
    /\ UNCHANGED <<ctx, pc, executed, statuses, upd, calls, db, parked>>

ConcurrentNext == ConcurrentStep \/ Switch \/ Tick

ConcurrentSpec == ConcurrentInit /\ [][ConcurrentNext]_vars

-----------------------------------------------------------------------------
(* src/agent/financial_agent.py and src/app.py: the workflow the generate   *)
(* endpoint invokes, and the endpoint. Two requests are in flight.          *)

\* GraphState of financial_agent.py
AgentState == {"user_id", "user_profile", "market_data", "recommendation", "error"}

\* the nodes of the workflow and its edges
AgentNodes ==
    {"agent.fetch_user_profile", "agent.fetch_market_data",
     "agent.generate_recommendation"}

AgentEdges ==
    ("agent.fetch_user_profile" :> "agent.fetch_market_data"
     @@ "agent.fetch_market_data" :> "agent.generate_recommendation"
     @@ "agent.generate_recommendation" :> "END")

agent_fetch_user_profile(state, data) ==
    IF "user_id" \notin DOMAIN state
    THEN Ret("error" :> "'user_id'")
    ELSE IF "error" \in DOMAIN data
    THEN Ret("error" :> data["error"])
    ELSE Ret("user_profile" :> data)

agent_fetch_market_data(state, data) ==
    IF "error" \in DOMAIN data
    THEN Ret("error" :> data["error"])
    ELSE Ret("market_data" :> data)

\* the recommendation built from the JSON object of the LLM reply
ParsedRecommendation(state, body) ==
    LET given == Get(body, "suggested_instruments", EmptyDict)
        filled == given @@ [k \in {"stocks", "mutual_funds", "fixed_deposits"}
                               |-> <<>>]
    IN  ("user_id" :> state["user_id"] @@ "suggested_instruments" :> filled)
        @@ body

\* state['user_profile'] and state['market_data'] are read before the try
generate_recommendation(state, llm) ==
    IF "user_profile" \notin DOMAIN state \/ "market_data" \notin DOMAIN state
    THEN Raise
    ELSE IF llm.kind = "raise"
    THEN Ret("error" :> "Failed to generate recommendation: llm")
    ELSE IF llm.kind # "json" \/ "user_id" \notin DOMAIN state
    THEN Ret("error" :> ("Failed to generate recommendation: Failed to parse "
                         \o "LLM response into the required format"))
    ELSE Ret("recommendation" :> ParsedRecommendation(state, llm.body))

\* the row save_recommendation_to_db inserts
AgentSavedRow(recommendation) ==
    [user_id |-> recommendation["user_id"],
     recommendation_json |-> recommendation,
     created_at |-> IsoFormat(now)]

\* the row the endpoint inserts: created_at is left to the column default
EndpointRow(user_id, recommendation_data) ==
    [user_id |-> user_id,
     recommendation_json |-> recommendation_data,
     created_at |-> CurrentTimestamp(now)]

\* StateGraph(GraphState) of financial_agent.py
AgentMerge(channels, out) ==
    [k \in DOMAIN channels \cup (DOMAIN out \cap AgentState) |->
        IF k \in DOMAIN out THEN out[k] ELSE channels[k]]

\* the replies the collaborators give to a request
RequestUserReplies ==
    {[outcome |-> "ok",
      profile |-> MkProfile(Num(Rupees(100000)), Num(Rupees(60000)),
                            Str("Medium"), Num(5))],
     [outcome |-> "notfound", profile |-> EmptyDict]}

RequestMarketReplies ==
    {[outcome |-> "ok", data |-> MarketFile(<<Stock("SYM001", "low")>>)],
     [outcome |-> "exception", data |-> EmptyDict]}

RequestLlmReplies ==
    {[kind |-> "raise", body |-> EmptyDict],
     [kind |-> "text", body |-> EmptyDict],
     [kind |-> "json", body |-> ("explanation" :> "balanced")],
     [kind |-> "json", body |->
         ("explanation" :> "growth"
          @@ "suggested_instruments" :>
                 ("stocks" :> <<Pick("Company001 Ltd", 60)>>))]}

\* the engine's bookkeeping once a node of the workflow has returned r (or
\* raised); rows are the rows the node inserted
AgentFinish(node, r, made, rows) ==
    LET merged == IF r.raised THEN ctx ELSE AgentMerge(ctx, r.out)
    IN  /\ upd' = r.out
        /\ ctx' = merged
        /\ pc' = IF r.raised THEN "RAISED" ELSE AgentEdges[node]
        /\ executed' = Append(executed, node)
        /\ statuses' = Append(statuses, Get(merged, "status", "None"))
        /\ calls' = made @@ calls
        /\ db' = db \o rows
        /\ UNCHANGED <<parked, now>>

AgentFetchUserProfile ==
    /\ pc = "agent.fetch_user_profile"
    /\ \E user \in RequestUserReplies :
          AgentFinish(pc,
              agent_fetch_user_profile(ctx,
                  UserProfileTool_run(Get(ctx, "user_id", 0), user.outcome,
                                      user.profile)),
              ("user_fetch" :> user), <<>>)

AgentFetchMarketData ==
    /\ pc = "agent.fetch_market_data"
    /\ \E market \in RequestMarketReplies :
          AgentFinish(pc,
              agent_fetch_market_data(ctx,
                  MarketDataTool_run(market.outcome, market.data)),
              ("market_fetch" :> market), <<>>)

\* generate_recommendation with its call of save_recommendation_to_db, whose
\* failure is printed and otherwise ignored
GenerateRecommendation ==
    /\ pc = "agent.generate_recommendation"
    /\ \E llm \in RequestLlmReplies, write \in WriteOutcomes :
          LET r == generate_recommendation(ctx, llm)
              built == ~r.raised /\ "recommendation" \in DOMAIN r.out
              called == "user_profile" \in DOMAIN ctx /\ "market_data" \in DOMAIN ctx
          IN  AgentFinish(pc, r,
                  (IF called THEN ("llm" :> llm) ELSE EmptyDict)
                  @@ (IF built
                      THEN ("db_write" :> [committed |-> write = "ok"])
                      ELSE EmptyDict),
                  IF built /\ write = "ok"
                  THEN <<AgentSavedRow(r.out["recommendation"])>>
                  ELSE <<>>)

\* generate_financial_recommendation once invoke has returned or raised: the
\* final state's recommendation is inserted for the current user; a missing
\* recommendation and any exception are a 500
Respond ==
    /\ pc \in {"END", "RAISED"}
    /\ \E write \in WriteOutcomes :
          LET attempted == pc = "END" /\ "recommendation" \in DOMAIN ctx
              stored == attempted /\ write = "ok"
          IN  /\ db' = IF stored
                       THEN Append(db, EndpointRow(ctx["user_id"],
                                                   ctx["recommendation"]))
                       ELSE db
              /\ calls' = (IF attempted
                           THEN ("endpoint_write" :> [committed |-> stored])
                           ELSE EmptyDict) @@ calls
              /\ pc' = IF stored THEN "RESPONDED" ELSE "HTTP_500"
    /\ UNCHANGED <<ctx, executed, statuses, upd, parked, now>>

\* two requests, each seeded with the id of its authenticated user
Requests ==
    {[ctx |-> ("user_id" :> user_id), pc |-> "agent.fetch_user_profile",
      executed |-> <<>>, statuses |-> <<>>, upd |-> EmptyDict,
      calls |-> EmptyDict] : user_id \in 1..MaxUserId}

ServiceInit ==
    /\ \E first \in Requests :
          /\ ctx = first.ctx
          /\ pc = first.pc
          /\ executed = first.executed
          /\ statuses = first.statuses
          /\ upd = first.upd
          /\ calls = first.calls
    /\ parked \in Requests
    /\ db = <<>>
    /\ now = Epoch

ServiceNext ==
    \/ AgentFetchUserProfile
    \/ AgentFetchMarketData
    \/ GenerateRecommendation
    \/ Respond
    \/ Switch
    \/ Tick

ServiceSpec == ServiceInit /\ [][ServiceNext]_vars

-----------------------------------------------------------------------------
(* Vocabulary of the properties *)

Last(seq) == seq[Len(seq)]

Range(seq) == {seq[i] : i \in 1..Len(seq)}

Status == Get(ctx, "status", "None")

\* the collaborator calls that were made and failed
Failures ==
    {c \in DOMAIN calls :
        \/ c \in {"user_fetch", "market_fetch"} /\ calls[c].outcome # "ok"
        \/ c = "llm" /\ calls[c].kind = "raise"
        \/ c = "db_write" /\ ~calls[c].committed}

\* the profile row the user fetch returned
Fetched == Get(calls, "user_fetch", NoProfile).profile

ProfileFetched == Get(calls, "user_fetch", NoProfile).outcome = "ok"

\* the market data the market fetch returned
MarketUsable ==
    /\ Get(calls, "market_fetch", NoMarket).outcome = "ok"
    /\ Get(calls, "market_fetch", NoMarket).data # EmptyDict

\* all four base fields present, numeric where a number is expected, and a
\* risk appetite that is Low, Medium or High up to case
CompleteValid(p) ==
    /\ MissingFields(RequiredBase, p) = <<>>
    /\ \A f \in {"monthly_income", "monthly_expenses", "investment_horizon_years"} :
          ConvKind(p[f]) = "ok"
    /\ p["risk_appetite"].t = "str"
    /\ Lower(Strip(p["risk_appetite"].s)) \in {"low", "medium", "high"}

Income(p) == ConvVal(p["monthly_income"])
Expenses(p) == ConvVal(p["monthly_expenses"])

TerminalStatuses == {"recommendation_saved", "completed_with_fallback", "error_handled"}

MainPath ==
    <<"fetch_user_profile", "check_profile_completeness", "fetch_market_data",
      "preprocess_market_data", "calculate_emergency_fund",
      "analyze_goals_and_risk", "define_risk_based_allocation",
      "select_investment_products", "calculate_returns",
      "generate_final_recommendation", "save_recommendation">>

NoStageTwice ==
    \A i, j \in 1..Len(executed) : executed[i] = executed[j] => i = j

-----------------------------------------------------------------------------
(* C1 *)

\* C1: every run started at fetch_user_profile halts, runs no stage twice,
\* lets no exception out, and halts with status recommendation_saved,
\* completed_with_fallback or error_handled, whatever the collaborators reply.
C1_RunHaltsOnce ==
    /\ [](/\ NoStageTwice
          /\ pc # "RAISED"
          /\ (pc = "END" => Status \in TerminalStatuses))
    /\ <>(pc = "END")

\* a run that went down the main path, met a failure there and halted
C1_Witness ==
    /\ pc = "END"
    /\ Len(executed) = 11
    /\ executed[1] = "fetch_user_profile"
    /\ Status = "error_handled"

-----------------------------------------------------------------------------
(* C2 *)

\* a run on a complete valid profile with income above expenses in which
\* every collaborator succeeded, at its halt
HappyRun ==
    /\ pc = "END"
    /\ ProfileFetched
    /\ CompleteValid(Fetched)
    /\ Income(Fetched) > Expenses(Fetched)
    /\ MarketUsable
    /\ Failures = {}

\* C2: on a complete valid profile with income above expenses and every
\* collaborator succeeding, the eleven main-path stages run in their fixed
\* order, the status passes from profile_valid to recommendation_generated,
\* and the run halts with recommendation_saved.
C2_HappyPathSaved ==
    HappyRun =>
        /\ executed = MainPath
        /\ SubSeq(statuses, 2, 11) =
              <<"profile_valid", "market_data_fetched", "market_data_processed",
                "emergency_fund_calculated", "risk_analyzed",
                "allocation_defined", "products_selected", "returns_calculated",
                "recommendation_generated", "recommendation_saved">>
        /\ Status = "recommendation_saved"

-----------------------------------------------------------------------------
(* C3 *)

\* C3: when the fetched profile lacks any of monthly_income,
\* monthly_expenses, risk_appetite or investment_horizon_years (absent or
\* null), the run executes generate_fallback_recommendation, halts with
\* completed_with_fallback and never executes handle_error.
C3_MissingFieldFallsBack ==
    (pc = "END" /\ ProfileFetched /\ MissingFields(RequiredBase, Fetched) # <<>>) =>
        /\ "generate_fallback_recommendation" \in Range(executed)
        /\ Status = "completed_with_fallback"
        /\ "handle_error" \notin Range(executed)

-----------------------------------------------------------------------------
(* C4 *)

CauseMessage == "Monthly expenses exceed or equal monthly income"

\* a halted run on an otherwise complete and valid profile whose income does
\* not exceed its expenses
IncomeNotAboveExpenses ==
    /\ pc = "END"
    /\ ProfileFetched
    /\ CompleteValid(Fetched)
    /\ Income(Fetched) <= Expenses(Fetched)

EndedInHandleError ==
    /\ Last(executed) = "handle_error"
    /\ Status = "error_handled"
    /\ ctx["recommendation"]["status"] = "error"

\* C4 as stated: for every otherwise complete and valid profile with income
\* at most expenses the run ends in handle_error and the payload's message
\* names the cause.
C4_MessageNamesCause ==
    IncomeNotAboveExpenses =>
        /\ EndedInHandleError
        /\ ctx["recommendation"]["message"] = CauseMessage

\* C4 amended: such a run always ends in handle_error; the message names the
\* cause when the market data was fetched and is not empty, and is the
\* market-data error otherwise (the run fails before the income is compared).
C4_MessageNamesCauseWhenReached ==
    IncomeNotAboveExpenses =>
        /\ EndedInHandleError
        /\ ctx["recommendation"]["message"] =
              IF MarketUsable THEN CauseMessage
              ELSE IF Get(calls, "market_fetch", NoMarket).outcome = "ok"
              THEN "Error processing market data: No market data available for processing"
              ELSE "Market data error: An error occurred while fetching market data: io"

C4_Witness ==
    /\ IncomeNotAboveExpenses
    /\ "calculate_emergency_fund" \in Range(executed)
    /\ ctx["recommendation"]["message"] = CauseMessage

-----------------------------------------------------------------------------
(* C5 *)

\* the statuses for which the route table of a stage names a next stage
\* other than the error stage (for fetch_market_data the table's name and the
\* status the stage declares)
ListedStatuses ==
    ("fetch_user_profile" :> {"success"} @@
     "check_profile_completeness" :>
        {"profile_valid", "profile_incomplete", "profile_invalid"} @@
     "fetch_market_data" :> {"success", "market_data_fetched"} @@
     "preprocess_market_data" :> {"market_data_processed"} @@
     "calculate_emergency_fund" :> {"emergency_fund_calculated"} @@
     "analyze_goals_and_risk" :> {"risk_analyzed"} @@
     "define_risk_based_allocation" :> {"allocation_defined"} @@
     "select_investment_products" :> {"products_selected"} @@
     "calculate_returns" :> {"returns_calculated"} @@
     "generate_final_recommendation" :> {"recommendation_generated"} @@
     "save_recommendation" :> {"recommendation_saved"} @@
     "generate_fallback_recommendation" :> {"completed_with_fallback"})

\* C5: for every stage other than handle_error and every status that the
\* route table does not list for it (an absent status and an arbitrary
\* string included), the router selects handle_error.
C5_UnlistedStatusToHandleError ==
    (/\ executed # <<>>
     /\ Last(executed) # "handle_error"
     /\ Last(statuses) \notin ListedStatuses[Last(executed)])
        => pc = "handle_error"

-----------------------------------------------------------------------------
(* C6 *)

AfterMarketFetch == executed # <<>> /\ Last(executed) = "fetch_market_data"

-----------------------------------------------------------------------------
(* C7 *)

\* the stage that follows the i-th executed stage
NextOf(i) == IF i < Len(executed) THEN executed[i + 1] ELSE pc

\* fetch_market_data and the later stages of the main path
MainPathAfterCheck == {MainPath[i] : i \in 3..Len(MainPath)}

\* C7: after check_profile_completeness, profile_valid leads to
\* fetch_market_data, profile_incomplete and profile_invalid lead to
\* generate_fallback_recommendation, any other status to handle_error; so in
\* a run from the entry stage fetch_market_data and every later main-path
\* stage execute only after check_profile_completeness returned
\* profile_valid.
C7_ProfileGate ==
    /\ \A i \in 1..Len(executed) :
          executed[i] = "check_profile_completeness" =>
              NextOf(i) =
                  IF statuses[i] = "profile_valid" THEN "fetch_market_data"
                  ELSE IF statuses[i] \in {"profile_incomplete", "profile_invalid"}
                  THEN "generate_fallback_recommendation"
                  ELSE "handle_error"
    /\ (executed # <<>> /\ executed[1] = "fetch_user_profile") =>
          \A i \in 1..Len(executed) :
              executed[i] \in MainPathAfterCheck =>
                  \E j \in 1..(i - 1) :
                      /\ executed[j] = "check_profile_completeness"
                      /\ statuses[j] = "profile_valid"

C7_Witness ==
    /\ Len(executed) >= 3
    /\ executed[1] = "fetch_user_profile"
    /\ executed[2] = "check_profile_completeness"
    /\ statuses[2] = "profile_valid"
    /\ executed[3] = "fetch_market_data"

-----------------------------------------------------------------------------
(* C8 *)

\* C8: once a collaborator call has failed (user fetch, market fetch, LLM
\* call or persistence write) the run goes to handle_error and halts with
\* error_handled, never with recommendation_saved or completed_with_fallback.
C8_UpstreamFailureHandled ==
    Failures # {} =>
        /\ pc \in {"handle_error", "END"}
        /\ pc = "END" =>
              /\ Last(executed) = "handle_error"
              /\ Status = "error_handled"

\* a run whose persistence write failed, at its halt
C8_Witness ==
    /\ pc = "END"
    /\ "db_write" \in Failures
    /\ Status = "error_handled"

-----------------------------------------------------------------------------
(* C9 *)

\* the status vocabulary each stage declares
Vocabulary ==
    ("fetch_user_profile" :> {"success", "error"} @@
     "check_profile_completeness" :>
        {"profile_valid", "profile_incomplete", "profile_invalid", "error"} @@
     "fetch_market_data" :> {"market_data_fetched", "error"} @@
     "preprocess_market_data" :> {"market_data_processed", "error"} @@
     "calculate_emergency_fund" :> {"emergency_fund_calculated", "error"} @@
     "analyze_goals_and_risk" :> {"risk_analyzed", "error"} @@
     "define_risk_based_allocation" :> {"allocation_defined", "error"} @@
     "select_investment_products" :> {"products_selected", "error"} @@
     "calculate_returns" :> {"returns_calculated", "error"} @@
     "generate_final_recommendation" :> {"recommendation_generated", "error"} @@
     "save_recommendation" :> {"recommendation_saved", "error"} @@
     "generate_fallback_recommendation" :> {"completed_with_fallback", "error"} @@
     "handle_error" :> {"error_handled"})

\* C9: the update every stage returns sets status to a member of the stage's
\* vocabulary; save_recommendation leaves the context with status
\* recommendation_saved when the write succeeded and with status error when
\* it failed or there was no recommendation to save.
C9_StatusSetFromVocabulary ==
    (executed # <<>> /\ pc # "RAISED") =>
        /\ "status" \in DOMAIN upd
        /\ upd["status"] \in Vocabulary[Last(executed)]
        /\ Last(executed) = "save_recommendation" =>
              Status = IF Get(calls, "db_write", [committed |-> FALSE]).committed
                       THEN "recommendation_saved" ELSE "error"

-----------------------------------------------------------------------------
(* C10 *)

\* C10: no stage lets an exception escape: on every input context the stage
\* returns an update, and an update that reports a failure has status error
\* and an error message.
C10_NoExceptionEscapes ==
    /\ pc # "RAISED"
    /\ (executed # <<>> /\ Get(upd, "status", "None") = "error") =>
          "error" \in DOMAIN upd

-----------------------------------------------------------------------------
(* C11 *)

\* the status marker of the payload each terminal status comes with
PayloadMarker ==
    ("recommendation_saved" :> "success" @@
     "completed_with_fallback" :> "fallback" @@
     "error_handled" :> "error")

\* C11: at every halt the context holds a recommendation: the assembled
\* report after recommendation_saved, the fallback payload after
\* completed_with_fallback, the failure payload after error_handled.
C11_HaltCarriesRecommendation ==
    pc = "END" =>
        /\ "recommendation" \in DOMAIN ctx
        /\ ctx["recommendation"] # EmptyDict
        /\ Status \in DOMAIN PayloadMarker
        /\ ctx["recommendation"]["status"] = PayloadMarker[Status]

\* a halt after a committed write, with the report in the context
C11_Witness ==
    /\ pc = "END"
    /\ Status = "recommendation_saved"
    /\ Len(db) = 1
    /\ ctx["recommendation"] = db[1].recommendation_json

-----------------------------------------------------------------------------
(* C12 *)

\* the payload has a status marker, a message and suggested next actions
WellFormedPayload(r) ==
    /\ {"status", "message", "suggested_actions"} \subseteq DOMAIN r
    /\ r["message"] # ""
    /\ r["suggested_actions"] # <<>>

\* C12: handle_error always halts the run with status error_handled and a
\* payload whose marker is "error", whose message is the error text present
\* in the context and which carries suggested actions;
\* generate_fallback_recommendation always returns completed_with_fallback
\* with a payload that has a marker, a message and suggested actions.
C12_TerminalPayloads ==
    /\ (executed # <<>> /\ Last(executed) = "handle_error") =>
          /\ pc = "END"
          /\ Status = "error_handled"
          /\ WellFormedPayload(ctx["recommendation"])
          /\ ctx["recommendation"]["status"] = "error"
          /\ "error" \in DOMAIN ctx =>
                ctx["recommendation"]["message"] = ctx["error"]
    /\ (executed # <<>> /\ Last(executed) = "generate_fallback_recommendation") =>
          /\ upd["status"] = "completed_with_fallback"
          /\ WellFormedPayload(upd["recommendation"])

\* handle_error has wrapped the error text of a failed persistence write
C12_Witness ==
    /\ pc = "END"
    /\ Len(executed) = 2
    /\ executed[1] = "save_recommendation"
    /\ Last(executed) = "handle_error"
    /\ ctx["recommendation"]["message"] = "Failed to save recommendation: db"

-----------------------------------------------------------------------------
(* C13 *)

\* generate_fallback_recommendation ran right after check_profile_completeness
FallbackAfterCheck ==
    /\ Len(executed) >= 2
    /\ Last(executed) = "generate_fallback_recommendation"
    /\ executed[Len(executed) - 1] = "check_profile_completeness"

\* C13: after an incomplete profile the fallback message lists exactly the
\* missing fields check_profile_completeness found; after an invalid profile
\* the message is the invalidity reason.
C13_FallbackMessageListsMissing ==
    FallbackAfterCheck =>
        LET found == statuses[Len(statuses) - 1]
            missing == MissingFields(RequiredBase,
                                     Get(ctx, "user_profile", EmptyDict))
            message == ctx["recommendation"]["message"]
        IN  /\ found = "profile_incomplete" =>
                  /\ missing # <<>>
                  /\ message = "Please provide the following information: "
                               \o Join(missing) \o "."
            /\ found = "profile_invalid" =>
                  /\ "error" \in DOMAIN ctx
                  /\ message = ctx["error"]

-----------------------------------------------------------------------------
(* C14 *)

\* the contexts that carry the same status as x and differ from it in the
\* other fields: error present or absent, a profile present or absent
SameStatusContexts(x) ==
    {Opt("status", "status" \in DOMAIN x, Get(x, "status", "None"))
     @@ Opt("error", hasError, "another error")
     @@ Opt("user_profile", hasProfile, EmptyDict) :
        hasError \in BOOLEAN, hasProfile \in BOOLEAN}

\* C14: the next stage depends only on the stage and the status: contexts at
\* the same stage with the same status are routed alike whether or not they
\* hold an error, and a context that holds an error together with a success
\* status continues on the main or fallback path.
C14_RouteByStatusOnly ==
    executed # <<>> =>
        /\ \A other \in SameStatusContexts(ctx) :
              Route(Last(executed), other) = pc
        /\ (/\ "error" \in DOMAIN ctx
            /\ Last(executed) # "handle_error"
            /\ Last(statuses) \in ListedStatuses[Last(executed)])
              => pc \notin {"handle_error", "RAISED"}

\* an edge followed on a success status with an error in the context
C14_Witness ==
    /\ executed = <<"calculate_emergency_fund">>
    /\ "error" \in DOMAIN ctx
    /\ Status = "emergency_fund_calculated"
    /\ pc = "analyze_goals_and_risk"

-----------------------------------------------------------------------------
(* C15 *)

\* the fetched profile is complete and numeric and its risk appetite is none
\* of Low, Medium, High; check_profile_completeness has run on it
UnrecognizedRisk ==
    /\ ProfileFetched
    /\ MissingFields(RequiredBase, Fetched) = <<>>
    /\ ConvKind(Fetched["monthly_income"]) = "ok"
    /\ ConvKind(Fetched["monthly_expenses"]) = "ok"
    /\ Lower(Strip(PyStr(Fetched["risk_appetite"]))) \notin {"low", "medium", "high"}
    /\ Len(executed) >= 2
    /\ executed[2] = "check_profile_completeness"

-----------------------------------------------------------------------------
(* C16 *)

\* check_profile_completeness is about to run on a profile that has all four
\* base fields and numeric income and expenses
CheckingCompleteProfile ==
    /\ pc = "check_profile_completeness"
    /\ "user_profile" \in DOMAIN ctx
    /\ MissingFields(RequiredBase, ctx["user_profile"]) = <<>>
    /\ ConvKind(ctx["user_profile"]["monthly_income"]) = "ok"
    /\ ConvKind(ctx["user_profile"]["monthly_expenses"]) = "ok"

-----------------------------------------------------------------------------
(* C17 *)

\* check_profile_completeness has just returned profile_valid
ProfileJustValidated ==
    /\ executed # <<>>
    /\ Last(executed) = "check_profile_completeness"
    /\ Last(statuses) = "profile_valid"

\* C17: a second run of check_profile_completeness on the context its first
\* run produced from a valid profile gives the same status and the same
\* normalized user_profile.
C17_CheckIsIdempotent ==
    ProfileJustValidated =>
        LET again == check_profile_completeness(ctx)
        IN  /\ ~again.raised
            /\ again.out["status"] = "profile_valid"
            /\ again.out["user_profile"] = ctx["user_profile"]
            /\ Merge(ctx, again.out) = ctx

\* the first run rewrote a lower-case medium and added the derived fields
C17_Witness ==
    /\ ProfileJustValidated
    /\ ctx["user_profile"]["risk_appetite"] = Str("Medium")
    /\ "disposable_income" \in DOMAIN ctx["user_profile"]

-----------------------------------------------------------------------------
(* C18 *)

\* calculate_emergency_fund has run on a profile with income > expenses > 0
FundComputed ==
    /\ executed # <<>>
    /\ Last(executed) = "calculate_emergency_fund"
    /\ "user_profile" \in DOMAIN ctx
    /\ {"monthly_income", "monthly_expenses"} \subseteq DOMAIN ctx["user_profile"]
    /\ ConvKind(ctx["user_profile"]["monthly_income"]) = "ok"
    /\ ConvKind(ctx["user_profile"]["monthly_expenses"]) = "ok"
    /\ Income(ctx["user_profile"]) > Expenses(ctx["user_profile"])
    /\ Expenses(ctx["user_profile"]) > 0

Disposable == Income(ctx["user_profile"]) - Expenses(ctx["user_profile"])

\* one unit in the second decimal place
Hundredth == 100

Abs(x) == IF x < 0 THEN -x ELSE x

\* C18: for income > expenses > 0 the emergency_fund and monthly_investment
\* that calculate_emergency_fund returns add up to income - expenses rounded
\* to two decimals, within one unit in the second decimal place.
C18_PartsAddUp ==
    FundComputed =>
        /\ {"emergency_fund", "monthly_investment"} \subseteq DOMAIN upd
        /\ Abs(upd["emergency_fund"] + upd["monthly_investment"]
               - Round2(Disposable)) <= Hundredth

\* both parts were rounded upwards and the sum is one paisa above the
\* disposable income
C18_Witness ==
    /\ FundComputed
    /\ "emergency_fund" \in DOMAIN upd
    /\ upd["emergency_fund"] + upd["monthly_investment"] = Disposable + Hundredth

-----------------------------------------------------------------------------
(* C19 *)

\* y is x rounded to two decimals: a multiple of a hundredth that is nearest
\* to x
IsRounded2(y, x) == y % Hundredth = 0 /\ Abs(y - x) * 2 <= Hundredth

\* C19: for income > expenses > 0 the emergency_fund is 0.05 x (income -
\* expenses) and the monthly_investment 0.95 x (income - expenses), each
\* rounded to two decimals, and the status is emergency_fund_calculated.
C19_FivePercentFund ==
    FundComputed =>
        /\ {"emergency_fund", "monthly_investment", "status"} \subseteq DOMAIN upd
        /\ upd["status"] = "emergency_fund_calculated"
        /\ Disposable % 20 = 0
        /\ IsRounded2(upd["emergency_fund"], Disposable \div 20)
        /\ IsRounded2(upd["monthly_investment"], (Disposable \div 20) * 19)

\* income 100000.33 and expenses 60000.00: fund 2000.02, investment 38000.31
C19_Witness ==
    /\ FundComputed
    /\ Disposable = Paise(4000033)
    /\ upd["emergency_fund"] = Paise(200002)
    /\ upd["monthly_investment"] = Paise(3800031)

-----------------------------------------------------------------------------
(* C20 *)

\* the function has reached the computation of the class amounts
AtClassAmounts == pc = "class_amounts"

\* C20: for all allocation ratios given to select_investment_products, also
\* ratios that do not sum to 1 and ratios that are all zero, the equity,
\* fixed_income and cash ratios used for the class amounts sum to 1.
C20_RatiosSumToOne ==
    AtClassAmounts =>
        LET e == upd["equity"]
            f == upd["fixed_income"]
            c == upd["cash"]
        IN  e.num * f.den * c.den + f.num * e.den * c.den + c.num * e.den * f.den
            = e.den * f.den * c.den

(* C21 *)

\* the function has returned a selection
Selected == pc = "RETURNED" /\ "selected_products" \in DOMAIN upd

ClassKey ==
    ("equity" :> "stocks" @@ "fixed_income" :> "mutual_funds"
     @@ "cash" :> "fixed_deposits")

ClassTop ==
    ("equity" :> TopStocks @@ "fixed_income" :> TopFunds
     @@ "cash" :> TopDeposits)

\* the instruments of a class the market data lists
Listed(k) == Get(Get(ctx, "market_data", EmptyDict), ClassKey[k], <<>>)

\* the class amount, cut to a whole number of units, of the state the
\* function was called with
ClassAmount(k) ==
    (products_monthly_investment(ctx) * allocation_ratios(ctx)[k].num)
        \div allocation_ratios(ctx)[k].den

\* market cap of a stock, trailing return of a fund, rate of a deposit, under
\* either name the data may give it
ClassMetric(k, x) ==
    CASE k = "equity" -> Get(x, "market_cap", 0)
      [] k = "fixed_income" ->
            IF "returns_5y" \in DOMAIN x THEN x["returns_5y"]
            ELSE Get(x, "return_pct_3y_cagr", 0)
      [] k = "cash" ->
            IF "interest_rate" \in DOMAIN x THEN x["interest_rate"]
            ELSE Get(x, "rate_pct", 0)

\* a selected product without the amount given to it
Instrument(p) == [key \in DOMAIN p \ {"allocation_amount"} |-> p[key]]

TopRanked(k) ==
    LET sel == upd["selected_products"][ClassKey[k]]
        n == Min(ClassTop[k], Len(Listed(k)))
    IN  /\ Len(sel) = n
        /\ \A i \in 1..n :
              \E j \in 1..Len(Listed(k)) : Instrument(sel[i]) = Listed(k)[j]
        /\ \A i \in 1..(n - 1) :
              ClassMetric(k, sel[i]) >= ClassMetric(k, sel[i + 1])
        /\ \A j \in 1..Len(Listed(k)) :
              (\A i \in 1..n : Instrument(sel[i]) # Listed(k)[j])
                  => ClassMetric(k, Listed(k)[j]) <= ClassMetric(k, sel[n])

EvenSplit(k) ==
    LET sel == upd["selected_products"][ClassKey[k]]
        n == Len(sel)
    IN  /\ \A i \in 1..n : sel[i]["allocation_amount"] = sel[1]["allocation_amount"]
        /\ n > 0 => Abs(n * sel[1]["allocation_amount"] - ClassAmount(k))
                        <= n * 50 + 1

\* C21: for each class with a positive amount and instruments listed, the
\* selected instruments are the min(N, listed) listed ones with the highest
\* class metric, in descending order, and each gets the same amount, the
\* class amount divided by the number selected (to the nearest hundredth).
C21_TopRankedEvenSplit ==
    Selected =>
        \A k \in AssetClasses :
            (ClassAmount(k) > 0 /\ Listed(k) # <<>>)
                => TopRanked(k) /\ EvenSplit(k)

(* C22 *)

\* the product-selection stage of the graph has just returned
ProductsStageReturned ==
    /\ executed # <<>>
    /\ Last(executed) = "select_investment_products"
    /\ pc # "RAISED"

\* C22: when the product-selection stage returns products_selected, no class
\* with a nonzero allocation is left empty: a class for which nothing
\* qualified holds one default instrument.
C22_NoEmptyClassWithAllocation ==
    (ProductsStageReturned /\ Get(upd, "status", "None") = "products_selected")
        => \A k \in AssetClasses :
              Get(Get(upd, "asset_allocation", EmptyDict), k, 0) > 0
                  => upd["selected_products"][ClassKey[k]] # <<>>

(* C23 *)

\* the LLM was called and its reply holds no JSON object that parses
UnparsableReply ==
    /\ ProductsStageReturned
    /\ "llm" \in DOMAIN calls
    /\ calls["llm"].kind \in {"text", "malformed"}

\* C23: when the LLM reply has no parsable structured payload, the
\* product-selection stage returns an empty selection (stocks, mutual_funds
\* and fixed_deposits all empty) with status products_selected, not error.
C23_UnparsableReplyGivesEmptySelection ==
    UnparsableReply =>
        /\ upd["status"] = "products_selected"
        /\ upd["suggested_instruments"] = EmptyInstruments
        /\ \A k \in AssetClasses : upd["selected_products"][ClassKey[k]] = <<>>
        /\ Status = "products_selected"

C23_Witness ==
    /\ UnparsableReply
    /\ calls["llm"].kind = "malformed"
    /\ upd["selected_products"]["stocks"] = <<>>
    /\ pc = "calculate_returns"

(* C24 *)

\* the rows saved for a user, by position in the table
SavesFor(user_id) == {i \in 1..Len(db) : db[i].user_id = user_id}

\* the row of the most recent save made for a user
MostRecentSave(user_id) ==
    db[CHOOSE i \in SavesFor(user_id) : \A j \in SavesFor(user_id) : j <= i]

\* C24: after any sequence of saves, by one run or by concurrent runs, for
\* the same or for different users, loading the latest recommendation of a
\* user returns the payload of the most recent save made for that user, never
\* a payload of another user and never an older payload of the same user.
C24_LatestIsMostRecentSave ==
    \A user_id \in 1..MaxUserId :
        \A row \in LatestRows(user_id) :
            /\ row.user_id = user_id
            /\ row.recommendation_json
                   = MostRecentSave(user_id).recommendation_json

(* C25 *)

\* the run that has the processor, as a record like the parked one
Running ==
    [ctx |-> ctx, pc |-> pc, executed |-> executed, statuses |-> statuses,
     upd |-> upd, calls |-> calls]

Halted(run) == run.pc \in {"END", "RAISED", "RESPONDED", "HTTP_500"}

\* a run on its own, from a context and a node, given the replies a run got
RECURSIVE Alone(_, _, _)
Alone(state, node, replies) ==
    IF node \notin Nodes THEN state
    ELSE LET write == IF "db_write" \in DOMAIN replies
                         /\ replies["db_write"].committed
                      THEN "ok" ELSE "fail"
             r == RunNode(node, state,
                          Get(replies, "user_fetch", NoProfile),
                          Get(replies, "market_fetch", NoMarket),
                          Get(replies, "llm", NoLlm), write)
             merged == Merge(state, r.out)
         IN  IF r.raised THEN state
             ELSE Alone(merged, Route(node, merged), replies)

\* what a halted run ended with is what it ends with on its own
SameAsAlone(run) ==
    LET alone == Alone(SeedContext(run.executed[1], run.ctx["user_id"]),
                       run.executed[1], run.calls)
    IN  /\ Get(run.ctx, "status", "None") = Get(alone, "status", "None")
        /\ Get(run.ctx, "recommendation", EmptyDict)
               = Get(alone, "recommendation", EmptyDict)

\* a recommendation names the user of the run that holds it
OwnRecommendation(run) ==
    ("recommendation" \in DOMAIN run.ctx
        /\ "user_id" \in DOMAIN run.ctx["recommendation"])
        => run.ctx["recommendation"]["user_id"] = run.ctx["user_id"]

\* a run that halted with recommendation_saved ran save_recommendation once
\* and its INSERT was committed
SavedOnce(run) ==
    (Halted(run) /\ Get(run.ctx, "status", "None") = "recommendation_saved")
        => /\ Cardinality({i \in 1..Len(run.executed) :
                              run.executed[i] = "save_recommendation"}) = 1
           /\ run.calls["db_write"].committed

\* a step leaves each run with the user it was seeded with, and either
\* leaves the table alone or adds one row for the user of the run that took
\* the step; the step in which save_recommendation succeeds adds one
RowsOnlyAdded ==
    /\ {ctx'["user_id"], parked'.ctx["user_id"]}
           = {ctx["user_id"], parked.ctx["user_id"]}
    /\ \/ db' = db
       \/ /\ Len(db') = Len(db) + 1
          /\ SubSeq(db', 1, Len(db)) = db
          /\ db'[Len(db')].user_id = ctx["user_id"]
    /\ (parked' = parked /\ pc = "save_recommendation" /\ pc' = "END"
            /\ ctx'["status"] = "recommendation_saved")
           => /\ Len(db') = Len(db) + 1
              /\ db'[Len(db')].recommendation_json = ctx["recommendation"]

RowWritten == db' # db

\* the row is written by save_recommendation, entered on the main path, and
\* holds the recommendation of the context: the assembled report
WrittenByPersist ==
    /\ pc = "save_recommendation"
    /\ Status = "recommendation_generated"
    /\ db' = Append(db, db'[Len(db')])
    /\ db'[Len(db')].recommendation_json = ctx["recommendation"]
    /\ db'[Len(db')].recommendation_json["status"] \notin {"fallback", "error"}

C27_FieldsNeverRemoved ==
    [][/\ DOMAIN ctx \subseteq DOMAIN ctx'
       /\ "user_id" \in DOMAIN ctx => ctx'["user_id"] = ctx["user_id"]]_vars

\* analyze_goals_and_risk has returned its three fields and the context
\* still holds the profile and the user
C27_Witness ==
    /\ executed # <<>>
    /\ Last(executed) = "analyze_goals_and_risk"
    /\ DOMAIN upd = {"risk_profile", "time_horizon", "status"}
    /\ {"user_id", "user_profile", "market_data"} \subseteq DOMAIN ctx

(* C28 *)

\* a stage has returned an update (it did not raise)
StageReturned == executed # <<>> /\ pc # "RAISED"

\* C28: after a stage returns, every field of its update is in the context
\* with the returned value, readable by the next stage; in particular
\* missing_fields, monthly_investment, selected_products,
\* suggested_instruments and projected_returns reach the stages that read
\* them.
C28_UpdateFieldsReachContext ==
    StageReturned =>
        \A k \in DOMAIN upd : k \in DOMAIN ctx /\ ctx[k] = upd[k]

(* C29 *)

\* analyze_goals_and_risk has just returned
RiskAnalyzed ==
    /\ executed # <<>>
    /\ Last(executed) = "analyze_goals_and_risk"
    /\ pc # "RAISED"

\* the risk appetite of the profile in the context, and whether it names a
\* tier
RiskAppetite == Get(Get(ctx, "user_profile", EmptyDict), "risk_appetite", AbsentV)

RecognisedTier ==
    RiskAppetite.t = "str" /\ Lower(RiskAppetite.s) \in {"low", "medium", "high"}

\* C29: analyze_goals_and_risk sets risk_profile to the profile's normalized
\* risk appetite whenever that is one of the recognised tiers, and to the
\* default "moderate" only when the risk appetite is absent or unrecognized;
\* it sets time_horizon to investment_horizon_years (5 when absent) and
\* returns status risk_analyzed.
C29_RiskProfileFollowsAppetite ==
    RiskAnalyzed =>
        /\ upd["status"] = "risk_analyzed"
        /\ upd["time_horizon"]
               = ConvVal(Get(ctx["user_profile"], "investment_horizon_years", Num(5)))
        /\ RecognisedTier => Lower(upd["risk_profile"]) = Lower(RiskAppetite.s)
        /\ ~RecognisedTier => upd["risk_profile"] = "moderate"

(* C30 *)

\* define_risk_based_allocation has just returned
AllocationDefined ==
    /\ executed # <<>>
    /\ Last(executed) = "define_risk_based_allocation"
    /\ pc # "RAISED"

\* C30: in a full run the asset_allocation that define_risk_based_allocation
\* puts in the context is the table row of the user's normalized risk
\* appetite (Low 0.3 / 0.5 / 0.2, Medium 0.6 / 0.3 / 0.1, High 0.8 / 0.15 /
\* 0.05), so users who differ only in risk appetite, Low against High, get
\* different allocations.
C30_AllocationOfOwnTier ==
    (AllocationDefined /\ RecognisedTier) =>
        \A k \in AssetClasses :
            ctx["asset_allocation"][k]
                = DEFAULT_ALLOCATIONS[Lower(RiskAppetite.s)][k]

(* C31 *)

\* generate_final_recommendation has just returned, entered with the status
\* returns_calculated
FinalRecommendationReturned ==
    /\ Len(executed) >= 2
    /\ executed[Len(executed)] = "generate_final_recommendation"
    /\ statuses[Len(statuses) - 1] = "returns_calculated"
    /\ pc # "RAISED"

\* C31: generate_final_recommendation returns status
\* recommendation_generated with a recommendation payload for every context
\* the preceding stages can produce with status returns_calculated,
\* including one whose selected instruments are empty in all three classes
\* or absent.
C31_FinalRecommendationGenerated ==
    FinalRecommendationReturned
        => /\ Get(upd, "status", "None") = "recommendation_generated"
           /\ "recommendation" \in DOMAIN upd
           /\ Status = "recommendation_generated"

(* C32 *)

\* the stage that has just returned reported the status error
ReturnedError == StageReturned /\ Get(upd, "status", "None") = "error"

\* a stage has run and its edge leads to handle_error
RoutedToHandleError == executed # <<>> /\ pc = "handle_error"

\* handle_error has run on the context a stage left
ErrorHandled ==
    /\ Len(executed) >= 2
    /\ executed[Len(executed)] = "handle_error"
    /\ pc # "RAISED"

\* C32: whenever a stage returns status error it also sets a non-empty
\* error message, and whenever handle_error executes the context already
\* contains error, so the failure payload's message is never the default
\* "An unknown error occurred".
C32_ErrorStatusHasMessage ==
    /\ ReturnedError => ("error" \in DOMAIN upd /\ upd["error"] # "")
    /\ RoutedToHandleError => ("error" \in DOMAIN ctx /\ ctx["error"] # "")
    /\ ErrorHandled
           => /\ ctx["recommendation"]["message"] = ctx["error"]
              /\ ctx["recommendation"]["message"] # "An unknown error occurred"

\* a failed INSERT has taken a run from save_recommendation to handle_error,
\* which reports the failure of the INSERT
C32_Witness ==
    /\ executed = <<"save_recommendation", "handle_error">>
    /\ ctx["recommendation"]["message"] = "Failed to save recommendation: db"

(* C33 *)

\* the statuses a run halts with
HaltStatuses == {"recommendation_saved", "completed_with_fallback", "error_handled"}

\* the run has reached END after at least one stage
HaltedAtEnd(run) == run.pc = "END" /\ run.executed # <<>>

\* C33: a run that halts with recommendation_saved has no error field in its
\* final context, and a run that halts with completed_with_fallback or
\* error_handled has one: error is present at the halt exactly when the run
\* did not succeed.
C33_ErrorIffNotSucceeded ==
    \A run \in {Running, parked} :
        HaltedAtEnd(run)
            => /\ Get(run.ctx, "status", "None") \in HaltStatuses
               /\ ("error" \in DOMAIN run.ctx)
                      <=> (run.ctx["status"] # "recommendation_saved")

\* one run has halted saved and without error, the other after handle_error
\* or the fallback and with error
C33_Witness ==
    /\ HaltedAtEnd(Running)
    /\ HaltedAtEnd(parked)
    /\ Status = "recommendation_saved"
    /\ "error" \notin DOMAIN ctx
    /\ parked.ctx["status"] \in {"completed_with_fallback", "error_handled"}
    /\ "error" \in DOMAIN parked.ctx

(* C34 *)

\* the instruments select_investments puts in the prompt: the first ten of
\* each class of state['market_data']
PromptLimit == 10

formatted_market(state) ==
    LET market_data == Get(state, "market_data", EmptyDict)
    IN  [k \in {"stocks", "mutual_funds", "fixed_deposits"} |->
            SubSeq(Get(market_data, k, <<>>), 1,
                   Min(PromptLimit, Len(Get(market_data, k, <<>>))))]

\* the selection stage has just run and has called the LLM for a user whose
\* normalized risk appetite is Low
SelectedForLowRisk ==
    /\ executed # <<>>
    /\ executed[Len(executed)] = "select_investment_products"
    /\ "llm" \in DOMAIN calls
    /\ Get(Get(ctx, "user_profile", EmptyDict), "risk_appetite", NoneV) = Str("Low")

\* C34: the product-selection stage chooses instruments only from the
\* universe preprocess_market_data filtered by risk tier: for a user whose
\* normalized risk appetite is Low, every stock offered to the selection
\* stage has risk_level low.
C34_SelectionFromFilteredUniverse ==
    SelectedForLowRisk
        => /\ formatted_market(ctx)["stocks"]
                  = Get(Get(ctx, "processed_market_data", EmptyDict), "stocks", <<>>)
           /\ \A i \in 1..Len(formatted_market(ctx)["stocks"]) :
                  formatted_market(ctx)["stocks"][i].risk_level = "low"

(* C35 *)

\* the step is check_profile_completeness returning a status other than
\* profile_valid
ProfileRejected ==
    /\ pc = "check_profile_completeness"
    /\ pc' # "RAISED"
    /\ Get(upd', "status", "None") \in {"profile_incomplete", "profile_invalid", "error"}

\* the context holds the same user_profile after the step as before it
ProfileUntouched ==
    /\ ("user_profile" \in DOMAIN ctx') <=> ("user_profile" \in DOMAIN ctx)
    /\ "user_profile" \in DOMAIN ctx => ctx'["user_profile"] = ctx["user_profile"]

\* C35: when check_profile_completeness returns profile_incomplete,
\* profile_invalid or error, the user_profile held in the context is
\* unchanged from before the stage ran: derived savings fields, default
\* investment goals and the normalized risk appetite are written only when
\* the stage returns profile_valid.
C35_RejectedProfileUnchanged == [][ProfileRejected => ProfileUntouched]_vars

(* C36 *)

\* fetch_user_profile or fetch_market_data of the run has recorded an error
FetchErrorRecorded(run) ==
    /\ "error" \in DOMAIN run.ctx
    /\ \/ /\ Len(run.executed) >= 1
          /\ "user_profile" \notin DOMAIN run.ctx
       \/ /\ Len(run.executed) >= 2
          /\ "market_data" \notin DOMAIN run.ctx

\* the rows the requests have stored that hold a recommendation of the run
StoredFor(run) ==
    {i \in 1..Len(db) :
        /\ "recommendation" \in DOMAIN run.ctx
        /\ db[i].recommendation_json = run.ctx["recommendation"]}

\* C36: in the three-stage workflow the generate endpoint invokes, when
\* fetch_user_profile or fetch_market_data records an error, no later stage
\* raises an exception, no recommendation is generated or saved, and the
\* final state returned to the endpoint carries the recorded error.
C36_FetchErrorCarriedToEnd ==
    \A run \in {Running, parked} :
        FetchErrorRecorded(run)
            => /\ run.pc # "RAISED"
               /\ "recommendation" \notin DOMAIN run.ctx
               /\ StoredFor(run) = {}
               /\ run.pc \in {"END", "RESPONDED", "HTTP_500"}
                      => Len(run.executed) = Cardinality(AgentNodes)

(* C37 *)

\* the endpoint has answered the request
Answered(run) == run.pc \in {"RESPONDED", "HTTP_500"}

Succeeded(run) == IF run.pc = "RESPONDED" THEN 1 ELSE 0

\* C37: each successful request to the generate endpoint adds exactly one
\* row to the recommendations table, for the requesting user, and a request
\* that fails adds none.
C37_OneRowPerSuccessfulRequest ==
    (Answered(Running) /\ Answered(parked))
        => \A user_id \in 1..MaxUserId :
               Cardinality(SavesFor(user_id))
                   = (IF ctx["user_id"] = user_id THEN Succeeded(Running) ELSE 0)
                     + (IF parked.ctx["user_id"] = user_id
                        THEN Succeeded(parked) ELSE 0)

====
